---- MODULE Spec2Model ----
(***************************************************************************)
(* Model of the batch-job orchestration of the email assistant:            *)
(* app/main.py (main and its summary helpers), app/processing.py           *)
(* (apply_actions), app/openai_batch.py (the provider calls and the        *)
(* result parser) and the adapter functions apply_actions is handed        *)
(* (open_thread / reply_to_email / back_to_inbox).                         *)
(*                                                                         *)
(* One invocation of main() is a walk of `pc` from "start" to "idle".      *)
(* state.json is `disk`; the dict main() holds is `state`.  The provider   *)
(* is the function `prov` from batch ids to batch objects as last seen by  *)
(* get_batch; every get_batch may find the job further along.              *)
(***************************************************************************)
EXTENDS Integers, Sequences, FiniteSets, TLC

\* ------------------------------------------------------------- bounds
\* Longest list of items one harvest returns / one apply_actions call gets.
MaxItems == 3
\* Number of batch jobs (classification and summary) the provider accepts.
MaxJobs == 2
\* The completion window of config.yaml, in minutes ("1m").
MaxWindow == 1
\* Number of unread mails that arrive in the inbox.
MaxMail == 2

\* Lines of an output file given to the parser.
MaxLines == 2

VARIABLES
    disk,          \* content of state.json
    state,         \* the dict main() read from state.json and mutates
    args,          \* argparse flags of the running invocation
    self_email,    \* configured downstream address ("" when none)
    pc,            \* position of the running invocation ("idle": none runs)
    ctx,           \* call site _handle_pending_summary_batch returns to
    prov,          \* provider: batch id -> batch object
    pending,       \* local `pending` of main()
    batch_id,      \* local `batch_id` of main()
    sbatch,        \* summary batch id / custom id being handled
    summary_text,  \* local `summary_text` of the summary handlers
    payload,       \* local `payload` of main(): what the summary job is given
    waited,        \* seconds slept by the running wait loop
    emails,        \* local `emails`
    decisions,     \* local `decisions`
    idx,           \* position of apply_actions' for loop (1-based)
    results,       \* `results` of apply_actions
    seen_threads,  \* `seen_threads` of apply_actions
    calls,         \* adapter calls made by the running apply_actions
    raised,        \* custom_ids at which an adapter call raised in apply_actions
    status,        \* local `status`: what the last get_batch returned
    path,          \* which copy of the apply code runs: "resume" (312-374) or "fresh" (449-510)
    sendCount,     \* history: real reply sends per custom_id
    summarySent,   \* history: real summary sends per summary batch id
    harvested,     \* history: per batch id, the items as harvested at submit
    applied,       \* history: batch ids whose apply_actions call has returned
    run,           \* history of the running invocation
    unread         \* the unread mail of the inbox, top row first

\* The locals of one invocation.
locals == <<pending, batch_id, sbatch, summary_text, payload, waited, emails, decisions,
            idx, results, seen_threads, calls, raised, status, path, ctx>>
\* The locals of apply_actions.
applyLocals == <<idx, results, seen_threads, calls, raised>>
history == <<sendCount, summarySent, harvested, applied, run>>

vars == <<disk, state, args, self_email, pc, prov, unread, locals, history>>

\* --------------------------------------------------------- data model
None == [none |-> TRUE]

\* models.EmailItem
EmailItem(custom_id, thread_id, sender, subject) ==
    [custom_id |-> custom_id, thread_id |-> thread_id, sender |-> sender,
     subject |-> subject, date |-> "d", snippet |-> "s", body |-> "b"]

\* models.Decision
Decision(action, reason, summary, reply) ==
    [action |-> action, reason |-> reason, summary |-> summary, reply |-> reply]

Min(a, b) == IF a <= b THEN a ELSE b

\* ------------------------------------------------------------ config
\* cfg["openai"]["completion_window"]: a number and the suffix after it.
Window(n, unit) == [n |-> n, unit |-> unit]

completion_window == Window(MaxWindow, "m")

\* Every window lasts a day.
completion_window_always_day(window) == 24 * 3600

\* utils.completion_window_to_seconds
completion_window_to_seconds(window) ==
    IF window.unit = "h" THEN window.n * 3600
    ELSE IF window.unit = "m" THEN window.n * 60
    ELSE 24 * 3600

\* --------------------------------------------------- persistent state
\* A dict without entries; d.get(k) of a missing key is None.
EmptyDict == [x \in {} |-> None]

\* read_state of a missing file: {}.  A key that is absent reads as None.
EmptyState == [pending_batch |-> None, pending_summary_batch |-> None]

\* email.__dict__ (main.py:435), as json.dumps writes it.
ToDict(email) ==
    [custom_id |-> email.custom_id, thread_id |-> email.thread_id,
     sender |-> email.sender, subject |-> email.subject, date |-> email.date,
     snippet |-> email.snippet, body |-> email.body]

\* EmailItem(**item) (main.py:317).
FromDict(item) ==
    [custom_id |-> item.custom_id, thread_id |-> item.thread_id,
     sender |-> item.sender, subject |-> item.subject, date |-> item.date,
     snippet |-> item.snippet, body |-> item.body]

\* [EmailItem(**item) for item in pending.get("items", [])]
ItemsDropFirst(items) == [k \in 1..(Len(items) - 1) |-> FromDict(items[k + 1])]

RebuildItems(items) == [k \in 1..Len(items) |-> FromDict(items[k])]

\* Every key is dropped.
PopAll(st) == EmptyState

\* state.pop(key, None)
PopBatch(st) == [st EXCEPT !.pending_batch = None]
PopSummary(st) == [st EXCEPT !.pending_summary_batch = None]

\* ----------------------------------------------------------- provider
NonTerminal == {"validating", "in_progress"}
TerminalFailed == {"failed", "cancelled", "expired"}
Terminal == {"completed"} \cup TerminalFailed

NoBatch == [kind |-> "none", status |-> "none", output_file_id |-> FALSE,
            output |-> <<>>]

\* A completed job whose output file is never seen.
NoOutputFile(batch) == FALSE

\* `if output_file_id:` on the batch object get_batch returned.
HasOutputFile(batch) == batch.output_file_id

\* One line of a batch output file.  error is "absent" when the line has no
\* "error" key; content is the model message content of the response.
Line(custom_id, error, content) ==
    [custom_id |-> custom_id, error |-> error, content |-> content]

\* The "error" of a line whose error key holds JSON null: Python reads None,
\* and str() of it is "None".
NullError == "None"

NotJson == [kind |-> "notjson"]
JsonObject(data) == [kind |-> "object", data |-> data]

\* Other message contents: JSON null in "content"; no choices[0].message
\* .content to reach in the body; JSON text that is not an object (a list,
\* a number, a string, `null`).
NullContent == [kind |-> "null"]
NoContent == [kind |-> "missing"]
JsonNonObject == [kind |-> "nonobject"]

\* Lines of an output file that are not records: an empty line, and a line
\* that json.loads rejects (or that is not a JSON object).
BlankLine == [kind |-> "blank"]
MalformedLine == [kind |-> "malformed"]
IsObjectLine(obj) == "custom_id" \in DOMAIN obj

\* Every key reads as missing.
GetDefault(data, key, default) == default

\* data.get(key, default)
Get(data, key, default) == IF key \in DOMAIN data THEN data[key] ELSE default

\* str.lower() on the action strings the model uses.
Lower(s) ==
    CASE s = "IGNORE" -> "ignore"
      [] s = "Auto_Reply" -> "auto_reply"
      [] s = "Important" -> "important"
      [] s = "Me <ME@X.COM>" -> "me <me@x.com>"
      [] OTHER -> s

\* json.loads(None) raises TypeError and data.get on a non-dict raises
\* AttributeError; parse_decision catches json.JSONDecodeError only.
parse_decision_raises(content) == content.kind \in {"null", "nonobject"}

\* The action is taken as the model wrote it.
parse_decision_uncoerced(content) ==
    IF content.kind = "notjson"
    THEN Decision("important", "invalid_json", "Model output invalid JSON.", "")
    ELSE LET data == content.data IN
         Decision(Get(data, "action", "important"),
                  Get(data, "reason", ""), Get(data, "summary", ""),
                  Get(data, "reply", ""))

\* openai_batch.parse_decision
parse_decision(content) ==
    IF content.kind = "notjson"
    THEN Decision("important", "invalid_json", "Model output invalid JSON.", "")
    ELSE LET data == content.data
             action == Lower(Get(data, "action", "important")) IN
         Decision(IF action \in {"ignore", "auto_reply", "important"}
                  THEN action ELSE "important",
                  Get(data, "reason", ""), Get(data, "summary", ""),
                  Get(data, "reply", ""))

\* lines 122-128: body["choices"][0]["message"]["content"], or "" when the
\* path is not there; "" is not JSON.
ExtractContent(obj) == IF obj.content.kind = "missing" THEN NotJson ELSE obj.content

\* The line makes parse_batch_output raise: json.loads(line) fails, or the
\* line gets as far as parse_decision and that raises.
LineRaises(obj) ==
    IF ~IsObjectLine(obj) THEN obj.kind = "malformed"
    ELSE /\ obj.custom_id # ""
         /\ obj.error = "absent"
         /\ parse_decision_raises(ExtractContent(obj))

\* Some line of the text makes the parser raise: no dict is returned.
ParseRaises(text) == \E k \in 1..Len(text) : LineRaises(text[k])

\* The error line is recorded as an ordinary answer.
ErrorLineDecisionParsed(obj) == parse_decision(NotJson)

\* lines 117-121: the Decision for a line that has an "error" key.
ErrorLineDecision(obj) == Decision("important", "batch_error", obj.error, "")

\* results[custom_id] = ... : a later line replaces an earlier one.
Put(d, k, v) == [x \in DOMAIN d \cup {k} |-> IF x = k THEN v ELSE d[x]]

RECURSIVE ParseLines(_, _)
ParseLines(lines, acc) ==
    IF lines = <<>> THEN acc
    ELSE LET obj == Head(lines) IN
         ParseLines(Tail(lines),
             IF ~IsObjectLine(obj) THEN acc
             ELSE IF obj.custom_id = "" THEN acc
             ELSE IF obj.error # "absent"
             THEN Put(acc, obj.custom_id, ErrorLineDecision(obj))
             ELSE Put(acc, obj.custom_id, parse_decision(ExtractContent(obj))))

\* openai_batch.parse_batch_output, for a text on which it does not raise.
parse_batch_output(text) == ParseLines(text, EmptyDict)

\* A message content that is plain text, as a sequence of characters.
TextContent(chars) == [kind |-> "text", chars |-> chars]

IsSpace(ch) == ch \in {" ", "\n"}

RECURSIVE lstrip(_)
lstrip(chars) ==
    IF chars # <<>> /\ IsSpace(Head(chars)) THEN lstrip(Tail(chars)) ELSE chars

RECURSIVE rstrip(_)
rstrip(chars) ==
    IF chars # <<>> /\ IsSpace(chars[Len(chars)])
    THEN rstrip(SubSeq(chars, 1, Len(chars) - 1))
    ELSE chars

\* str.strip(); the contents that are not spelled out character by
\* character stand for texts without white space around them.
strip(content) ==
    IF content.kind = "text"
    THEN [content EXCEPT !.chars = rstrip(lstrip(@))]
    ELSE content

\* Every line is taken for the line asked for.
IdMatchesAny(obj, custom_id) == TRUE

\* line 164: obj.get("custom_id") != custom_id
IdMatches(obj, custom_id) == obj.custom_id = custom_id

\* line 166: `"error" in obj and obj["error"]`
CarriesError(obj) == obj.error \notin {"absent", NullError, ""}

\* openai_batch.parse_summary_batch_output: the text returned, or the
\* message of the exception raised.
RECURSIVE parse_summary_batch_output(_, _)
parse_summary_batch_output(text, custom_id) ==
    IF text = <<>> THEN [ok |-> FALSE, err |-> "Summary batch output not found."]
    ELSE LET obj == Head(text) IN
         IF ~IsObjectLine(obj)
         THEN IF obj.kind = "blank"
              THEN parse_summary_batch_output(Tail(text), custom_id)
              ELSE [ok |-> FALSE, err |-> "JSONDecodeError"]
         ELSE IF ~IdMatches(obj, custom_id)
         THEN parse_summary_batch_output(Tail(text), custom_id)
         ELSE IF CarriesError(obj)
         THEN [ok |-> FALSE, err |-> obj.error]
         ELSE IF obj.content.kind \in {"null", "missing"}
         THEN [ok |-> FALSE, err |-> "Invalid summary batch output."]
         ELSE [ok |-> TRUE, text |-> strip(obj.content)]

\* The message contents the classification model answers with.
AutoReplyJson ==
    JsonObject([action |-> "auto_reply", reason |-> "intro",
                summary |-> "says hello", reply |-> "Thank you."])
IgnoreJson ==
    JsonObject([action |-> "ignore", reason |-> "newsletter",
                summary |-> "a newsletter"])
MainContents == {AutoReplyJson, IgnoreJson}

\* The output files the provider may produce for a classification job on
\* `items`: one line per request, in request order, every request of the
\* job answered alike.
ProviderOutputs(items) ==
    { [k \in 1..Len(items) |-> Line(items[k].custom_id, "absent", c)] :
        c \in MainContents }

\* build_summary_batch_jsonl: custom_id = f"summary-{int(time.time())}"; the
\* clock is logical, one tick per submitted job.
SummaryCustomId(t) == <<"summary", t>>

\* The output files the provider may produce for a summary job.
SummaryOutputs(custom_id) ==
    { <<Line(custom_id, "absent", TextContent(<<"o", "k", "\n">>))>>,
      <<Line(custom_id, "rate limit", NoContent)>> }

\* ------------------------------------------------------------ adapter
\* What the mailbox page shows when reply_to_email runs.
ReplyUi == {"ok", "no_reply_button", "no_textbox", "no_send_button"}

\* reply_to_email: `ret` is the returned bool, `clicked` whether Send was
\* clicked (a real send).
reply_to_email(ui, dry_run) ==
    IF ui = "no_reply_button" \/ ui = "no_textbox"
    THEN [ret |-> FALSE, clicked |-> FALSE]
    ELSE IF dry_run THEN [ret |-> TRUE, clicked |-> FALSE]
    ELSE IF ui = "no_send_button" THEN [ret |-> FALSE, clicked |-> FALSE]
    ELSE [ret |-> TRUE, clicked |-> TRUE]

\* What the mailbox page does when send_summary_email runs: the message is
\* composed and the Send button is there, or the button is not found, or a
\* locator call raises before the button is reached.
SummaryUi == {"ok", "no_send_button", "raises"}

\* Send is clicked whatever the flag says.
send_summary_email_always(ui, dry_run) == ui = "ok"

\* send_summary_email: whether Send was clicked (a real send).  What it
\* raises, _send_summary_via_browser catches (main.py:42-46).
send_summary_email(ui, dry_run) ==
    IF ui = "raises" THEN FALSE
    ELSE IF dry_run THEN FALSE
    ELSE ui = "ok"

\* -------------------------------------------------------- apply_actions
Outcome(email, action, st, summary, reply) ==
    [custom_id |-> email.custom_id, sender |-> email.sender,
     subject |-> email.subject, action |-> action, status |-> st,
     summary |-> summary, reply |-> reply]

\* No item is ever taken for a duplicate of its thread.
IsThreadDupNever(email, seen) == FALSE

\* `if email.thread_id and email.thread_id in seen_threads: continue`
IsThreadDup(email, seen) == email.thread_id # "" /\ email.thread_id \in seen

\* decisions.get(email.custom_id)
HasDecision(d, email) == email.custom_id \in DOMAIN d

\* The Outcome of one loop iteration that makes no adapter call.
MissingDecisionOutcomeIgnore(email) == Outcome(email, "ignore", "ignored", "", "")

MissingDecisionOutcome(email) ==
    Outcome(email, "important", "missing decision", "", "")

\* Every decision is carried out as ignore.
QuietOutcomeAllIgnored(email, d) ==
    Outcome(email, "ignore", "ignored", d.summary, "")

\* The Outcome of an iteration that has a Decision and calls no adapter
\* function (lines 37-49 and 64-87).
QuietOutcome(email, d) ==
    IF d.action = "auto_reply"
    THEN Outcome(email, "important", "missing reply text", d.summary, "")
    ELSE IF d.action = "important"
    THEN Outcome(email, "important", "needs reply", d.summary, "")
    ELSE Outcome(email, "ignore", "ignored", d.summary, "")

\* The adapter is reached whatever the reply text.
NeedsAdapterAnyReply(d, email) ==
    /\ HasDecision(d, email)
    /\ d[email.custom_id].action = "auto_reply"

\* An iteration reaches open_thread_fn / reply_fn / back_fn.
NeedsAdapter(d, email) ==
    /\ HasDecision(d, email)
    /\ d[email.custom_id].action = "auto_reply"
    /\ d[email.custom_id].reply # ""

\* What the adapter does during one auto-reply iteration: open_thread_fn or
\* reply_fn raises (an uncaught Playwright error), reply_fn runs on one of
\* the pages of ReplyUi, or back_fn raises after the reply went through.
AdapterRuns == ReplyUi \cup {"open_raises", "reply_raises", "back_raises"}

\* One adapter call: the function, the item it is made for, and how it
\* ended ("None", "True", "False", or "raised").
Call(fn, email) == [fn |-> fn, custom_id |-> email.custom_id, ret |-> "None"]

Raised(call) == [call EXCEPT !.ret = "raised"]
Returned(call, value) == [call EXCEPT !.ret = IF value THEN "True" ELSE "False"]

\* One more real send to custom_id cid; the history counts 0, 1 and "more
\* than once" (2).
Bump(sc, cid) == [sc EXCEPT ![cid] = IF @ >= 2 THEN 2 ELSE @ + 1]

\* by_custom = {r.get("custom_id", ""): r for r in results}: of two Outcomes
\* with one custom_id the later one stays.
by_custom(outcomes) ==
    [c \in {outcomes[k].custom_id : k \in 1..Len(outcomes)} |->
        outcomes[CHOOSE k \in 1..Len(outcomes) :
                    /\ outcomes[k].custom_id = c
                    /\ \A m \in (k + 1)..Len(outcomes) : outcomes[m].custom_id # c]]

\* The action of the Decision, whatever was done with it.
final_action_decided(result, d, email) ==
    IF HasDecision(d, email) THEN d[email.custom_id].action ELSE "important"

\* result.get("action") or (decision.action if decision else "important")
final_action(result, d, email) ==
    IF "action" \in DOMAIN result /\ result.action # "" THEN result.action
    ELSE IF HasDecision(d, email) THEN d[email.custom_id].action
    ELSE "important"

\* One dict of the payload (processing.py:147-157); `{}` is EmptyDict.
PayloadEntry(email, d, by) ==
    LET result == Get(by, email.custom_id, EmptyDict) IN
    [sender |-> email.sender, subject |-> email.subject, date |-> email.date,
     body |-> email.body,
     decision |-> IF HasDecision(d, email) THEN d[email.custom_id] ELSE EmptyDict,
     result |-> result,
     final_action |-> final_action(result, d, email)]

\* processing.build_summary_payload
build_summary_payload(list, d, outcomes) ==
    [k \in 1..Len(list) |-> PayloadEntry(list[k], d, by_custom(outcomes))]

\* History: the running invocation has made transition ev on job id.
Log(r, ev, id) == [r EXCEPT !.trace = Append(@, <<ev, id>>)]

\* for email in emails: one iteration that ends in `continue` or at the end
\* of the body without calling the adapter (lines 18-35, 37-49, 64-87).
ApplyQuiet ==
    /\ pc = "apply"
    /\ idx <= Len(emails)
    /\ LET email == emails[idx] IN
        /\ ~(~IsThreadDup(email, seen_threads) /\ NeedsAdapter(decisions, email))
        /\ IF IsThreadDup(email, seen_threads)
           THEN UNCHANGED <<results, seen_threads>>
           ELSE /\ seen_threads' = IF email.thread_id # ""
                                   THEN seen_threads \cup {email.thread_id}
                                   ELSE seen_threads
                /\ results' = Append(results,
                        IF ~HasDecision(decisions, email)
                        THEN MissingDecisionOutcome(email)
                        ELSE QuietOutcome(email, decisions[email.custom_id]))
    /\ idx' = idx + 1
    /\ UNCHANGED <<disk, state, args, self_email, unread, pc, prov, pending,
                   batch_id, sbatch, summary_text, payload, waited, emails, decisions, calls, raised,
                   status, path, ctx, history>>

\* One iteration of the auto_reply branch with a reply text (lines 50-63).
\* An exception of open_thread_fn, reply_fn or back_fn is not caught: it
\* leaves apply_actions (pc "apply_raised") with the outcomes so far.
ApplyAutoReply ==
    /\ pc = "apply"
    /\ idx <= Len(emails)
    /\ LET email == emails[idx]
           d == decisions[email.custom_id] IN
        /\ ~IsThreadDup(email, seen_threads)
        /\ NeedsAdapter(decisions, email)
        /\ seen_threads' = IF email.thread_id # ""
                           THEN seen_threads \cup {email.thread_id}
                           ELSE seen_threads
        /\ \E a \in AdapterRuns :
            LET ui == IF a \in ReplyUi THEN a ELSE "ok"
                r == reply_to_email(ui, args.dry_run) IN
            CASE a = "open_raises" ->
                    /\ calls' = Append(calls, Raised(Call("open_thread_fn", email)))
                    /\ raised' = raised \cup {email.custom_id}
                    /\ pc' = "apply_raised"
                    /\ UNCHANGED <<results, idx, sendCount>>
              [] a = "reply_raises" ->
                    /\ calls' = calls \o <<Call("open_thread_fn", email),
                                            Raised(Call("reply_fn", email))>>
                    /\ raised' = raised \cup {email.custom_id}
                    /\ pc' = "apply_raised"
                    /\ UNCHANGED <<results, idx, sendCount>>
              [] OTHER ->
                    /\ calls' = calls \o
                          <<Call("open_thread_fn", email),
                            Returned(Call("reply_fn", email), r.ret),
                            IF a = "back_raises"
                            THEN Raised(Call("back_fn", email))
                            ELSE Call("back_fn", email)>>
                    /\ results' = Append(results,
                            Outcome(email, "auto_reply",
                                    IF r.ret THEN "sent" ELSE "failed",
                                    d.summary, d.reply))
                    /\ sendCount' = IF r.clicked
                                    THEN Bump(sendCount, email.custom_id)
                                    ELSE sendCount
                    /\ IF a = "back_raises"
                       THEN /\ raised' = raised \cup {email.custom_id}
                            /\ pc' = "apply_raised"
                            /\ idx' = idx
                       ELSE /\ idx' = idx + 1
                            /\ UNCHANGED <<raised, pc>>
    /\ UNCHANGED <<disk, state, args, self_email, unread, prov, pending,
                   batch_id, sbatch, summary_text, payload, waited, emails, decisions,
                   status, path, ctx, summarySent, harvested, applied, run>>

\* The loop is left before the last item.
ApplyReturnEarly ==
    /\ pc = "apply"
    /\ pc' = "after_apply"
    /\ applied' = applied \cup {batch_id}
    /\ UNCHANGED <<disk, state, args, self_email, unread, prov, locals,
                   sendCount, summarySent, harvested, run>>

\* `return results`
ApplyReturn ==
    /\ pc = "apply"
    /\ idx > Len(emails)
    /\ pc' = "after_apply"
    /\ applied' = applied \cup {batch_id}
    /\ run' = Log(run, "apply", batch_id)
    /\ UNCHANGED <<disk, state, args, self_email, unread, prov, locals,
                   sendCount, summarySent, harvested>>

\* ----------------------------------------------------------- main()
NoArgs == [wait |-> FALSE, dry_run |-> FALSE, apply_only |-> FALSE]

\* What the running invocation has seen so far: the status its first poll
\* of a classification job returned and the job polled, the status the
\* last poll of its summary job returned, and the content state.json had
\* when it started; and `trace`, the transitions of the job state machine
\* it has made, each with the batch id of its job.
NewRun == [firstPoll |-> "none", polled |-> 0, sumLast |-> "none", start |-> None,
           trace |-> <<>>]

JobIds == 1..MaxJobs

\* The batch objects a job may have become since it was last looked at:
\* validating -> in_progress -> a terminal status.  A completed job has
\* an output file, or none (every request failed).
Advance(j, batch) ==
    LET done == {[kind |-> batch.kind, status |-> st, output_file_id |-> FALSE,
                  output |-> <<>>] : st \in Terminal}
                \cup {[kind |-> batch.kind, status |-> "completed",
                       output_file_id |-> TRUE, output |-> out] :
                      out \in IF batch.kind = "summary"
                              THEN SummaryOutputs(SummaryCustomId(j))
                              ELSE ProviderOutputs(harvested[j])}
        run_ == [batch EXCEPT !.status = "in_progress"] IN
    CASE batch.status = "validating" -> {batch, run_} \cup done
      [] batch.status = "in_progress" -> {batch} \cup done
      [] OTHER -> {batch}

\* openai_batch.get_batch: the provider is seen through this call only, so
\* `prov` holds each job as last seen and the call answers with any batch
\* object the job may have reached since.
get_batch(id) == Advance(id, prov[id])

\* openai_batch.download_file on the output file of a completed job.
download_file(id) == prov[id].output

\* Batch ids the provider has not issued yet, and the one it issues next.
FreeIds == {j \in DOMAIN prov : prov[j].status = "none"}
NextId == CHOOSE j \in FreeIds : \A k \in FreeIds : j <= k

\* The items the mailbox adapter can harvest.
ItemA == EmailItem("e1", "t1", "a@x.com", "Newsletter")
ItemB == EmailItem("e2", "t1", "b@x.com", "Re: Newsletter")
ItemC == EmailItem("e3", "", "c@x.com", "Hello")
ItemD == EmailItem("e4", "t2", "d@x.com", "Invoice")
CustomIds == {"e1", "e2", "e3", "e4"}

RECURSIVE SeqsUpTo(_, _)
SeqsUpTo(S, n) ==
    IF n = 0 THEN {<<>>}
    ELSE LET shorter == SeqsUpTo(S, n - 1) IN
         shorter \cup {Append(q, x) : q \in {r \in shorter : Len(r) = n - 1}, x \in S}

\* The unread mail that arrives in the inbox, top row first.
Mailbox == SubSeq(<<ItemA, ItemC, ItemD>>, 1, Min(MaxMail, 3))

\* What collect_unread_emails may return: the first unread rows, at most
\* `limit` of them (gmail: no two of one non-empty thread; custom_ids
\* distinct).  A row that is opened is read from then on.
HarvestCounts == 0..Min(MaxItems, Len(unread))

ResetLocals ==
    /\ pending' = None
    /\ batch_id' = 0
    /\ sbatch' = None
    /\ summary_text' = None
    /\ payload' = <<>>
    /\ waited' = 0
    /\ emails' = <<>>
    /\ decisions' = EmptyDict
    /\ idx' = 1
    /\ results' = <<>>
    /\ seen_threads' = {}
    /\ calls' = <<>>
    /\ raised' = {}
    /\ status' = "none"
    /\ path' = "none"
    /\ ctx' = "none"

\* The process starts: argparse, read_state (lines 213-275).
Invoke ==
    /\ pc = "idle"
    /\ \E w, d, a \in BOOLEAN :
         args' = [wait |-> w, dry_run |-> d, apply_only |-> a]
    /\ state' = disk
    /\ pc' = "start"
    /\ run' = [NewRun EXCEPT !.start = disk]
    /\ UNCHANGED <<disk, self_email, unread, prov, locals, sendCount, summarySent, harvested, applied>>

\* lines 277-301: is there a pending summary job?
Start ==
    /\ pc = "start"
    /\ IF state.pending_summary_batch # None
       THEN /\ sbatch' = state.pending_summary_batch
            /\ ctx' = "top"
            /\ pc' = "hs_poll"
       ELSE /\ pc' = "pb"
            /\ UNCHANGED <<sbatch, summary_text, payload, ctx>>
    /\ UNCHANGED <<disk, state, args, self_email, unread, prov, pending, batch_id,
                   summary_text, payload, waited, emails, decisions, applyLocals, status,
                   path, history>>

\* main() returns as soon as the summary handler has.
AfterHandleReturns(c) == "ret"

\* Where control goes when _handle_pending_summary_batch returns to call
\* site c: line 300 (top), line 373 (resume) or line 508 (fresh).
AfterHandle(c) ==
    IF c = "top" THEN (IF args.apply_only THEN "ret" ELSE "pb") ELSE "clear"

\* The `wait` argument at call site c (args.wait at the top, True below).
HandleWait(c) == IF c = "top" THEN args.wait ELSE TRUE

\* One poll of the summary job and what follows it without another provider
\* call (main.py:77-106 and 134-188).  `more` is the pc when the status is
\* not terminal.
SummaryPolled(batch, more) ==
    /\ prov' = [prov EXCEPT ![sbatch.batch_id] = batch]
    /\ IF batch.status = "completed" /\ HasOutputFile(batch) /\ self_email # ""
       THEN /\ pc' = "hs_send"
            /\ run' = [run EXCEPT !.sumLast = batch.status]
            /\ UNCHANGED <<state, disk>>
       ELSE IF batch.status \in {"completed", "failed", "cancelled", "expired"}
       THEN /\ state' = PopSummary(state)
            /\ disk' = state'
            /\ run' = Log([run EXCEPT !.sumLast = batch.status],
                          "pop_summary", sbatch.batch_id)
            /\ pc' = AfterHandle(ctx)
       ELSE /\ pc' = more
            /\ run' = [run EXCEPT !.sumLast = batch.status]
            /\ UNCHANGED <<state, disk>>

\* _handle_pending_summary_batch: get_batch and the branch on its status.
HsPoll ==
    /\ pc = "hs_poll"
    /\ \E batch \in get_batch(sbatch.batch_id) :
         SummaryPolled(batch, IF HandleWait(ctx) THEN "sw_poll" ELSE AfterHandle(ctx))
    /\ waited' = 0
    /\ UNCHANGED <<args, self_email, unread, pending, batch_id, sbatch, summary_text, payload,
                   emails, decisions, applyLocals, status, path, ctx,
                   sendCount, summarySent, harvested, applied>>

\* _wait_for_summary_batch: one turn of the loop.
SwPoll ==
    /\ pc = "sw_poll"
    /\ waited < completion_window_to_seconds(completion_window)
    /\ waited' = waited + 30
    /\ \E batch \in get_batch(sbatch.batch_id) : SummaryPolled(batch, "sw_poll")
    /\ UNCHANGED <<args, self_email, unread, pending, batch_id, sbatch, summary_text, payload,
                   emails, decisions, applyLocals, status, path, ctx,
                   sendCount, summarySent, harvested, applied>>

\* _wait_for_summary_batch: the window is used up, the loop ends.
SwTimeout ==
    /\ pc = "sw_poll"
    /\ waited >= completion_window_to_seconds(completion_window)
    /\ pc' = AfterHandle(ctx)
    /\ UNCHANGED <<disk, state, args, self_email, unread, prov, locals, history>>

\* The completed summary is neither fetched nor sent.
HsSendSkipped ==
    /\ pc = "hs_send"
    /\ pc' = "hs_pop"
    /\ UNCHANGED <<disk, state, args, self_email, unread, prov, pending, batch_id,
                   sbatch, summary_text, payload, waited, emails, decisions, applyLocals,
                   status, path, ctx, history>>

\* download_file, parse_summary_batch_output, _send_summary_via_browser
\* (lines 84-99 and 141-156).  When the parser raises, nothing is sent and
\* the exception leaves main().
HsSend ==
    /\ pc = "hs_send"
    /\ LET parsed == parse_summary_batch_output(download_file(sbatch.batch_id),
                                                sbatch.custom_id) IN
       IF parsed.ok
       THEN /\ summary_text' = parsed.text
            /\ \E ui \in SummaryUi :
                 summarySent' =
                    IF send_summary_email(ui, args.dry_run)
                    THEN Bump(summarySent, sbatch.batch_id)
                    ELSE summarySent
            /\ run' = Log(run, "send_summary", sbatch.batch_id)
            /\ pc' = "hs_pop"
       ELSE /\ pc' = "raise"
            /\ UNCHANGED <<summary_text, summarySent, run>>
    /\ UNCHANGED <<disk, state, args, self_email, unread, prov, pending, batch_id,
                   sbatch, payload, waited, emails, decisions, applyLocals, status, path,
                   ctx, sendCount, harvested, applied>>

\* state.pop("pending_summary_batch", None); write_state; return (lines
\* 100-102 and 157-159).
HsPop ==
    /\ pc = "hs_pop"
    /\ state' = PopSummary(state)
    /\ disk' = state'
    /\ summary_text' = None
    /\ run' = Log(run, "pop_summary", sbatch.batch_id)
    /\ pc' = AfterHandle(ctx)
    /\ UNCHANGED <<args, self_email, unread, prov, pending, batch_id,
                   sbatch, payload, waited, emails, decisions, applyLocals, status, path,
                   ctx, sendCount, summarySent, harvested, applied>>

Polled(r, id, st) ==
    [r EXCEPT !.firstPoll = IF @ = "none" THEN st ELSE @,
              !.polled = IF r.firstPoll = "none" THEN id ELSE @]

\* The statuses on which line 311 treats the polled job as finished.
FinishedAtFirstPoll == {"completed", "failed", "cancelled"}

\* lines 303-392 up to the first provider call after get_batch: the poll of
\* a recorded pending_batch and the branch on its status.
PbPoll ==
    /\ pc = "pb"
    /\ IF state.pending_batch = None
       THEN /\ pc' = "gate"
            /\ UNCHANGED <<state, disk, prov, pending, batch_id, status, run>>
       ELSE \E batch \in get_batch(state.pending_batch.batch_id) :
            /\ prov' = [prov EXCEPT ![state.pending_batch.batch_id] = batch]
            /\ pending' = state.pending_batch
            /\ batch_id' = state.pending_batch.batch_id
            /\ status' = batch.status
            /\ IF batch.status \in FinishedAtFirstPoll
               THEN IF batch.status = "completed" /\ HasOutputFile(batch)
                    THEN /\ pc' = "pb_download"
                         /\ run' = Polled(run, state.pending_batch.batch_id,
                                          batch.status)
                         /\ UNCHANGED <<state, disk>>
                    ELSE /\ state' = PopBatch(state)
                         /\ disk' = state'
                         /\ run' = Log(Polled(run, state.pending_batch.batch_id,
                                              batch.status),
                                       "clear", state.pending_batch.batch_id)
                         /\ pc' = "gate"
               ELSE /\ pc' = IF args.wait THEN "rw_poll"
                             ELSE IF args.apply_only THEN "ret" ELSE "gate"
                    /\ run' = Polled(run, state.pending_batch.batch_id,
                                     batch.status)
                    /\ UNCHANGED <<state, disk>>
    /\ waited' = 0
    /\ UNCHANGED <<args, self_email, unread, sbatch, summary_text, payload, emails, decisions,
                   applyLocals, path, ctx, sendCount, summarySent, harvested, applied>>

\* lines 315-323: download_file, parse_batch_output, the items rebuilt from
\* the record, the browser opened.
PbDownload ==
    /\ pc = "pb_download"
    /\ decisions' = parse_batch_output(download_file(batch_id))
    /\ emails' = RebuildItems(pending.items)
    /\ idx' = 1
    /\ results' = <<>>
    /\ seen_threads' = {}
    /\ calls' = <<>>
    /\ raised' = {}
    /\ path' = "resume"
    /\ pc' = "apply"
    /\ UNCHANGED <<disk, state, args, self_email, unread, prov, pending, batch_id,
                   sbatch, summary_text, payload, waited, status, ctx, history>>

\* lines 380-390: one turn of the wait loop of a resumed pending_batch.  It
\* looks for "completed" only; then it writes the record back and calls
\* main() again, which reads state.json anew.
RwPoll ==
    /\ pc = "rw_poll"
    /\ waited < completion_window_to_seconds(completion_window)
    /\ \E batch \in get_batch(batch_id) :
       /\ prov' = [prov EXCEPT ![batch_id] = batch]
       /\ IF batch.status = "completed"
          THEN /\ disk' = [state EXCEPT !.pending_batch = pending]
               /\ state' = disk'
               /\ run' = Log(Polled(run, batch_id, batch.status), "reenter", batch_id)
               /\ pc' = "start"
               /\ ResetLocals
          ELSE /\ status' = batch.status
               /\ run' = Polled(run, batch_id, batch.status)
               /\ waited' = waited + 30
               /\ UNCHANGED <<disk, state, pc, pending, batch_id, sbatch, summary_text, payload, emails,
                              decisions, applyLocals, path, ctx>>
    /\ UNCHANGED <<args, self_email, unread, sendCount, summarySent, harvested, applied>>

\* lines 381 and 390: the window is used up; return.
RwTimeout ==
    /\ pc = "rw_poll"
    /\ waited >= completion_window_to_seconds(completion_window)
    /\ pc' = "ret"
    /\ UNCHANGED <<disk, state, args, self_email, unread, prov, locals, history>>

\* emails, decisions and results are not read again once the summary
\* payload is built (or skipped): the locals of the branch are dead.
PayloadBuilt ==
    /\ emails' = <<>>
    /\ decisions' = EmptyDict
    /\ idx' = 1
    /\ results' = <<>>
    /\ seen_threads' = {}
    /\ calls' = <<>>
    /\ raised' = {}

\* _submit_summary_batch (lines 339-350 and 475-486): submit_summary_batch,
\* the record put into state, write_state; then the summary handler when
\* the run waits.
SubmitSummary ==
    /\ pc = "after_apply"
    /\ self_email # ""
    /\ FreeIds # {}
    /\ LET id == NextId
           rec == [batch_id |-> id, custom_id |-> SummaryCustomId(id),
                   created_at |-> id] IN
       /\ prov' = [prov EXCEPT ![id] = [kind |-> "summary", status |-> "validating",
                                        output_file_id |-> FALSE, output |-> <<>>]]
       /\ state' = [state EXCEPT !.pending_summary_batch = rec]
       /\ disk' = state'
       /\ run' = Log([run EXCEPT !.sumLast = "none"], "submit_summary", id)
       /\ IF path = "fresh" \/ args.wait
          THEN /\ sbatch' = rec
               /\ ctx' = path
               /\ pc' = "hs_poll"
          ELSE /\ pc' = "clear"
               /\ UNCHANGED <<sbatch, ctx>>
    /\ payload' = build_summary_payload(emails, decisions, results)
    /\ PayloadBuilt
    /\ UNCHANGED <<args, self_email, unread, pending, batch_id, summary_text, waited,
                   status, path, sendCount, summarySent, harvested, applied>>

\* `if self_email:` is false (lines 339 and 475).
SkipSummary ==
    /\ pc = "after_apply"
    /\ self_email = ""
    /\ pc' = "clear"
    /\ PayloadBuilt
    /\ UNCHANGED <<disk, state, args, self_email, unread, prov, pending, batch_id,
                   sbatch, summary_text, payload, waited, status, path, ctx, history>>

\* state.pop("pending_batch", None); write_state (lines 373-374, 508-509).
Clear ==
    /\ pc = "clear"
    /\ state' = PopBatch(state)
    /\ disk' = state'
    /\ pc' = IF path = "resume" THEN "gate" ELSE "ret"
    /\ run' = Log(run, "clear", batch_id)
    /\ UNCHANGED <<args, self_email, unread, prov, locals, sendCount, summarySent,
                   harvested, applied>>

\* The harvest follows in every mode.
GateOpen ==
    /\ pc = "gate"
    /\ pc' = "harvest"
    /\ UNCHANGED <<disk, state, args, self_email, unread, prov, locals, history>>

\* lines 394-395.
Gate ==
    /\ pc = "gate"
    /\ pc' = IF args.apply_only THEN "ret" ELSE "harvest"
    /\ UNCHANGED <<disk, state, args, self_email, unread, prov, locals, history>>

\* lines 399-423: collect_unread_emails.  The provider accepts MaxJobs jobs,
\* so the mailbox holds unread mail only while a batch id is left.
Harvest ==
    /\ pc = "harvest"
    /\ \E n \in HarvestCounts :
         /\ n > 0 => FreeIds # {}
         /\ emails' = SubSeq(unread, 1, n)
         /\ unread' = SubSeq(unread, n + 1, Len(unread))
         /\ pc' = IF n = 0 THEN "ret" ELSE "submit"
    /\ UNCHANGED <<disk, state, args, self_email, prov, pending, batch_id,
                   sbatch, summary_text, payload, waited, decisions, applyLocals, status, path, ctx,
                   history>>

\* lines 425-438: build_batch_jsonl, upload_batch_file, create_batch, the
\* record put into state, write_state.
Submit ==
    /\ pc = "submit"
    /\ FreeIds # {}
    /\ LET id == NextId IN
       /\ prov' = [prov EXCEPT ![id] = [kind |-> "classification",
                                        status |-> "validating",
                                        output_file_id |-> FALSE, output |-> <<>>]]
       /\ batch_id' = id
       /\ state' = [state EXCEPT !.pending_batch =
                       [batch_id |-> id, created_at |-> id,
                        items |-> [k \in 1..Len(emails) |-> ToDict(emails[k])]]]
       /\ disk' = state'
       /\ harvested' = [harvested EXCEPT ![id] = emails]
       /\ run' = Log(run, "submit", id)
    /\ waited' = 0
    /\ pc' = IF args.wait THEN "w_poll" ELSE "ret"
    /\ UNCHANGED <<args, self_email, unread, pending, sbatch, summary_text, payload, emails, decisions,
                   applyLocals, status, path, ctx, sendCount, summarySent, applied>>

\* lines 442-516: one turn of the wait loop after a submit.
WPoll ==
    /\ pc = "w_poll"
    /\ waited < completion_window_to_seconds(completion_window)
    /\ waited' = waited + 30
    /\ \E batch \in get_batch(batch_id) :
       /\ prov' = [prov EXCEPT ![batch_id] = batch]
       /\ status' = batch.status
       /\ IF batch.status = "completed" /\ HasOutputFile(batch)
          THEN /\ pc' = "w_download"
               /\ run' = Polled(run, batch_id, batch.status)
               /\ UNCHANGED <<state, disk>>
          ELSE IF batch.status \in {"completed", "failed", "cancelled", "expired"}
          THEN /\ state' = PopBatch(state)
               /\ disk' = state'
               /\ run' = Log(Polled(run, batch_id, batch.status), "clear", batch_id)
               /\ pc' = "ret"
          ELSE /\ pc' = "w_poll"
               /\ run' = Polled(run, batch_id, batch.status)
               /\ UNCHANGED <<state, disk>>
    /\ UNCHANGED <<args, self_email, unread, pending, batch_id, sbatch, summary_text, payload,
                   emails, decisions, applyLocals, path, ctx, sendCount, summarySent,
                   harvested, applied>>

\* line 442: the window is used up; main() ends.
WTimeout ==
    /\ pc = "w_poll"
    /\ waited >= completion_window_to_seconds(completion_window)
    /\ pc' = "ret"
    /\ UNCHANGED <<disk, state, args, self_email, unread, prov, locals, history>>

\* lines 452-459: download_file, parse_batch_output, the browser opened;
\* `emails` is the harvested list still in memory.
WDownload ==
    /\ pc = "w_download"
    /\ decisions' = parse_batch_output(download_file(batch_id))
    /\ idx' = 1
    /\ results' = <<>>
    /\ seen_threads' = {}
    /\ calls' = <<>>
    /\ raised' = {}
    /\ path' = "fresh"
    /\ pc' = "apply"
    /\ UNCHANGED <<disk, state, args, self_email, unread, prov, pending, batch_id,
                   sbatch, summary_text, payload, waited, emails, status, ctx, history>>

\* The statement main() is about to run is a call of the provider:
\* get_batch, download_file, or the upload and create_batch of a submit.
ProviderCallNext ==
    \/ pc \in {"hs_poll", "hs_send", "pb_download", "w_download", "submit"}
    \/ pc \in {"sw_poll", "rw_poll", "w_poll"}
         /\ waited < completion_window_to_seconds(completion_window)
    \/ pc = "pb" /\ state.pending_batch # None
    \/ pc = "after_apply" /\ self_email # ""

\* The failed call takes the recorded jobs with it.
ProviderErrorClears ==
    /\ ProviderCallNext
    /\ pc' = "error"
    /\ disk' = EmptyState
    /\ state' = EmptyState
    /\ args' = NoArgs
    /\ ResetLocals
    /\ run' = NewRun
    /\ UNCHANGED <<self_email, unread, prov, sendCount, summarySent, harvested, applied>>

\* openai_request: the provider answers >= 400 and RuntimeError is raised;
\* neither the Batch Client nor main() catches it or tries again, so the
\* invocation ends in the traceback with nothing written.
ProviderError ==
    /\ ProviderCallNext
    /\ pc' = "error"
    /\ state' = EmptyState
    /\ args' = NoArgs
    /\ ResetLocals
    /\ run' = NewRun
    /\ UNCHANGED <<disk, self_email, unread, prov, sendCount, summarySent, harvested, applied>>

\* main() returns, or the traceback is printed: the process exits.
MainReturn ==
    /\ pc \in {"ret", "error"}
    /\ pc' = "idle"
    /\ state' = EmptyState
    /\ args' = NoArgs
    /\ ResetLocals
    /\ run' = NewRun
    /\ UNCHANGED <<disk, self_email, unread, prov, sendCount, summarySent, harvested, applied>>

\* The invocation dies where it stands: the browser login times out, an
\* adapter call or a parser raised, or the process is interrupted.  Nothing
\* in main() catches, so only state.json survives.
Crash ==
    /\ pc \notin {"idle", "ret", "error"}
    /\ pc' = "idle"
    /\ state' = EmptyState
    /\ args' = NoArgs
    /\ ResetLocals
    /\ run' = NewRun
    /\ UNCHANGED <<disk, self_email, unread, prov, sendCount, summarySent, harvested, applied>>

\* Nothing has run yet: no state.json, no job at the provider.
Fresh ==
    /\ disk = EmptyState
    /\ state = EmptyState
    /\ self_email \in {"", "me@x.com"}
    /\ prov = [j \in JobIds |-> NoBatch]
    /\ pending = None
    /\ sbatch = None
    /\ summary_text = None
    /\ payload = <<>>
    /\ waited = 0
    /\ idx = 1
    /\ results = <<>>
    /\ seen_threads = {}
    /\ calls = <<>>
    /\ raised = {}
    /\ status = "none"
    /\ path = "none"
    /\ ctx = "none"
    /\ sendCount = [c \in CustomIds |-> 0]
    /\ summarySent = [j \in JobIds |-> 0]
    /\ unread = Mailbox
    /\ harvested = [j \in JobIds |-> <<>>]
    /\ applied = {}
    /\ run = NewRun

Init ==
    /\ Fresh
    /\ args = NoArgs
    /\ pc = "idle"
    /\ batch_id = 0
    /\ emails = <<>>
    /\ decisions = EmptyDict

Next ==
    \/ Invoke
    \/ Start
    \/ HsPoll
    \/ SwPoll
    \/ SwTimeout
    \/ HsSend
    \/ HsPop
    \/ PbPoll
    \/ PbDownload
    \/ RwPoll
    \/ RwTimeout
    \/ ApplyQuiet
    \/ ApplyAutoReply
    \/ ApplyReturn
    \/ SubmitSummary
    \/ SkipSummary
    \/ Clear
    \/ Gate
    \/ Harvest
    \/ Submit
    \/ WPoll
    \/ WTimeout
    \/ WDownload
    \/ ProviderError
    \/ MainReturn
    \/ Crash

Spec == Init /\ [][Next]_vars

\* --------------------------------------- main() on an inbox of one mail
\* The same program started on an inbox that holds one unread mail, with a
\* provider that issues one batch id more: the one classification job can be
\* followed by a summary job, and by the summary job of a second pass over
\* the same record.
OneMail == <<ItemA>>
MoreJobIds == 1..(MaxJobs + 1)

InitSummary ==
    /\ disk = EmptyState
    /\ state = EmptyState
    /\ self_email \in {"", "me@x.com"}
    /\ prov = [j \in MoreJobIds |-> NoBatch]
    /\ harvested = [j \in MoreJobIds |-> <<>>]
    /\ unread = OneMail
    /\ args = NoArgs
    /\ pc = "idle"
    /\ pending = None
    /\ batch_id = 0
    /\ sbatch = None
    /\ summary_text = None
    /\ payload = <<>>
    /\ waited = 0
    /\ emails = <<>>
    /\ decisions = EmptyDict
    /\ idx = 1
    /\ results = <<>>
    /\ seen_threads = {}
    /\ calls = <<>>
    /\ raised = {}
    /\ status = "none"
    /\ path = "none"
    /\ ctx = "none"
    /\ sendCount = [c \in CustomIds |-> 0]
    /\ summarySent = [j \in MoreJobIds |-> 0]
    /\ applied = {}
    /\ run = NewRun

SpecSummary == InitSummary /\ [][Next]_vars

\* ------------------------------- main() invoked again and again, fairly
\* An exception nothing catches (a parser or an adapter call raised) ends
\* the invocation.
Uncaught ==
    /\ pc \in {"raise", "apply_raised"}
    /\ Crash

\* The steps of main() when every provider call is answered and nothing
\* interrupts the process.
NextLive ==
    \/ Invoke
    \/ Start
    \/ HsPoll
    \/ SwPoll
    \/ SwTimeout
    \/ HsSend
    \/ HsPop
    \/ PbPoll
    \/ PbDownload
    \/ RwPoll
    \/ RwTimeout
    \/ ApplyQuiet
    \/ ApplyAutoReply
    \/ ApplyReturn
    \/ SubmitSummary
    \/ SkipSummary
    \/ Clear
    \/ Gate
    \/ Harvest
    \/ Submit
    \/ WPoll
    \/ WTimeout
    \/ WDownload
    \/ MainReturn
    \/ Uncaught

\* The program is invoked again whenever it has ended, and an invocation
\* that can take a step takes it.
SpecLive == Init /\ [][NextLive]_vars /\ WF_vars(NextLive)

\* The same on the inbox of one mail, where the provider never runs out of
\* batch ids: every job that is asked for is accepted.
SpecLiveSummary == InitSummary /\ [][NextLive]_vars /\ WF_vars(NextLive)

\* ------------------------------------------- apply_actions on its own
\* The lists of items and the decision dicts apply_actions is called with.
ApplyPool == {ItemA, ItemB, ItemC}

DecisionOptions ==
    {Decision("ignore", "newsletter", "a newsletter", ""),
     Decision("important", "deadline", "asks for a date", ""),
     Decision("auto_reply", "intro", "says hello", "Thank you."),
     Decision("auto_reply", "intro", "says hello", "")}

Ids(list) == {list[k].custom_id : k \in 1..Len(list)}

\* Every dict from some of the ids of `list` to a Decision.
DecisionDicts(list) ==
    UNION {[D -> DecisionOptions] : D \in SUBSET Ids(list)}

\* apply_actions(frame, emails, decisions, signature, dry_run, ...) is
\* entered with any list and any dict.
InitApply ==
    /\ Fresh
    /\ pc = "apply"
    /\ batch_id = 1
    /\ \E d \in BOOLEAN : args = [wait |-> FALSE, dry_run |-> d, apply_only |-> FALSE]
    /\ emails \in SeqsUpTo(ApplyPool, MaxItems)
    /\ decisions \in DecisionDicts(emails)

NextApply ==
    \/ ApplyQuiet
    \/ ApplyAutoReply
    \/ ApplyReturn

SpecApply == InitApply /\ [][NextApply]_vars

\* ------------------------- apply_actions and build_summary_payload
\* payload = build_summary_payload(emails, decisions, results) (main.py:340
\* and 476), on the list apply_actions has returned.
BuildPayload ==
    /\ pc = "after_apply"
    /\ payload' = build_summary_payload(emails, decisions, results)
    /\ pc' = "payload_built"
    /\ UNCHANGED <<disk, state, args, self_email, unread, prov, pending, batch_id,
                   sbatch, summary_text, waited, emails, decisions, applyLocals,
                   status, path, ctx, history>>

NextPayload ==
    \/ ApplyQuiet
    \/ ApplyAutoReply
    \/ ApplyReturn
    \/ BuildPayload

SpecPayload == InitApply /\ [][NextPayload]_vars

\* ---------------------------------------- parse_batch_output on its own
\* The model content that is the JSON text of Decision d.
Serialize(d) == JsonObject(d)

\* The message contents of the output lines.
ParseContents ==
    {NotJson, NoContent, NullContent, JsonNonObject}
      \cup {Serialize(d) : d \in DecisionOptions}
      \cup {JsonObject([action |-> "IGNORE", reason |-> "caps"]),
            JsonObject([action |-> "delete", reply |-> "Bye."]),
            JsonObject([reason |-> "no action"])}

\* The lines an output file is made of.
ParseLinePool ==
    {Line(c, "absent", ct) : c \in {"e1", "e2", ""}, ct \in ParseContents}
      \cup {Line(c, "rate limit", NoContent) : c \in {"e1", ""}}
      \cup {Line("e1", e, AutoReplyJson) : e \in {NullError, ""}}
      \cup {BlankLine, MalformedLine}

\* The output file of job 1 is any text of up to MaxLines lines.
InitParse ==
    /\ disk = EmptyState
    /\ state = EmptyState
    /\ self_email = ""
    /\ args = NoArgs
    /\ pc = "parse"
    /\ batch_id = 1
    /\ \E text \in SeqsUpTo(ParseLinePool, MaxLines) :
         prov = [j \in JobIds |->
                   IF j = 1
                   THEN [kind |-> "classification", status |-> "completed",
                         output_file_id |-> TRUE, output |-> text]
                   ELSE NoBatch]
    /\ pending = None
    /\ sbatch = None
    /\ summary_text = None
    /\ payload = <<>>
    /\ waited = 0
    /\ emails = <<>>
    /\ decisions = EmptyDict
    /\ idx = 1
    /\ results = <<>>
    /\ seen_threads = {}
    /\ calls = <<>>
    /\ raised = {}
    /\ status = "completed"
    /\ path = "none"
    /\ ctx = "none"
    /\ sendCount = [c \in CustomIds |-> 0]
    /\ summarySent = [j \in JobIds |-> 0]
    /\ unread = <<>>
    /\ harvested = [j \in JobIds |-> <<>>]
    /\ applied = {}
    /\ run = NewRun

\* decisions = parse_batch_output(output_text): the dict, or an exception
\* that leaves the caller without one.
ParseOutput ==
    /\ pc = "parse"
    /\ IF ParseRaises(download_file(batch_id))
       THEN pc' = "parse_raised" /\ UNCHANGED decisions
       ELSE /\ pc' = "parsed"
            /\ decisions' = parse_batch_output(download_file(batch_id))
    /\ UNCHANGED <<disk, state, args, self_email, unread, prov, pending,
                   batch_id, sbatch, summary_text, payload, waited, emails, applyLocals, status, path,
                   ctx, history>>

NextParse == ParseOutput

SpecParse == InitParse /\ [][NextParse]_vars

\* -------------------------------- parse_summary_batch_output on its own
\* The custom_id of a line that has none (obj.get gives None).
NoCustomId == <<>>

\* The message contents of the lines of a summary output file.
SummaryContents ==
    {TextContent(<<"o", "k">>), TextContent(<<" ", "o", "k", "\n">>),
     TextContent(<<"n", "o">>), NullContent, NoContent}

\* The lines the output file of summary job 1 is made of; summary job 2 is
\* another run's.
SummaryLinePool ==
    {Line(c, e, ct) : c \in {SummaryCustomId(1), SummaryCustomId(2), NoCustomId},
                      e \in {"absent", NullError, "", "rate limit"},
                      ct \in SummaryContents}
      \cup {BlankLine, MalformedLine}

InitParseSummary ==
    /\ disk = EmptyState
    /\ state = EmptyState
    /\ self_email = "me@x.com"
    /\ args = NoArgs
    /\ pc = "parse_summary"
    /\ batch_id = 0
    /\ \E text \in SeqsUpTo(SummaryLinePool, MaxLines) :
         prov = [j \in JobIds |->
                   IF j = 1
                   THEN [kind |-> "summary", status |-> "completed",
                         output_file_id |-> TRUE, output |-> text]
                   ELSE NoBatch]
    /\ pending = None
    /\ sbatch = [batch_id |-> 1, custom_id |-> SummaryCustomId(1), created_at |-> 1]
    /\ summary_text = None
    /\ payload = <<>>
    /\ waited = 0
    /\ emails = <<>>
    /\ decisions = EmptyDict
    /\ idx = 1
    /\ results = <<>>
    /\ seen_threads = {}
    /\ calls = <<>>
    /\ raised = {}
    /\ status = "completed"
    /\ path = "none"
    /\ ctx = "none"
    /\ sendCount = [c \in CustomIds |-> 0]
    /\ summarySent = [j \in JobIds |-> 0]
    /\ unread = <<>>
    /\ harvested = [j \in JobIds |-> <<>>]
    /\ applied = {}
    /\ run = NewRun

\* summary_text = parse_summary_batch_output(output_text, summary_custom_id):
\* the text, or an exception, whose message `raised` keeps.
ParseSummaryOutput ==
    /\ pc = "parse_summary"
    /\ LET parsed == parse_summary_batch_output(download_file(sbatch.batch_id),
                                                sbatch.custom_id) IN
       IF parsed.ok
       THEN /\ pc' = "summary_parsed"
            /\ summary_text' = parsed.text
            /\ UNCHANGED raised
       ELSE /\ pc' = "summary_raised"
            /\ raised' = {parsed.err}
            /\ UNCHANGED summary_text
    /\ UNCHANGED <<disk, state, args, self_email, unread, prov, pending,
                   batch_id, sbatch, payload, waited, emails, decisions, idx, results,
                   seen_threads, calls, status, path, ctx, history>>

NextParseSummary == ParseSummaryOutput

SpecParseSummary == InitParseSummary /\ [][NextParseSummary]_vars

\* ------------------------------------- collect_unread_emails on its own
\* gmail_cfg.get("summary_subject", "Daily email summary")
summary_subject == "Daily email summary"

\* What click_first_unread reads off an unread row (gmail: thread_id from
\* the row's data-thread-id; outlook: always "").
RowMeta(thread_id, sender, subject) ==
    [thread_id |-> thread_id, sender |-> sender, subject |-> subject]

\* The unread rows an inbox may show: two mails of one thread, a mail
\* without thread id, the system's own summary, a mail of another sender
\* with the summary's subject, and two notes the user sent to themself.
RowPool ==
    {RowMeta("t1", "a@x.com", "Newsletter"),
     RowMeta("t1", "b@x.com", "Re: Newsletter"),
     RowMeta("", "c@x.com", "Hello"),
     RowMeta("t9", "me@x.com", summary_subject),
     RowMeta("", "d@x.com", summary_subject),
     RowMeta("t3", "Me <ME@X.COM>", "Note to self"),
     RowMeta("", "Me <ME@X.COM>", "Second note")}

\* `needle in hay` for the sender strings of RowPool.
Contains(hay, needle) ==
    \/ needle = ""
    \/ hay = needle
    \/ hay = "me <me@x.com>" /\ needle = "me@x.com"

\* custom_id = f"email-{thread_id or int(time.time() * 1000)}": the thread
\* id, or else the clock reading ms.
HarvestCustomId(thread_id, ms) ==
    IF thread_id # "" THEN [thread |-> thread_id, ms |-> 0]
    ELSE [thread |-> "", ms |-> ms]

\* extract_open_email on the opened row, the clock reading ms.
extract_open_email(meta, ms) ==
    EmailItem(HarvestCustomId(meta.thread_id, ms), meta.thread_id,
              meta.sender, meta.subject)

\* No mail is taken for the system's own.
IsOwnMailNever(email, own) == FALSE

\* `if self_email and self_email.lower() in email.sender.lower()`
IsOwnMail(email, own) == own # "" /\ Contains(Lower(email.sender), Lower(own))

\* `if summary_subject and email.subject.strip() == summary_subject.strip()`
IsSummaryMail(email) == summary_subject # "" /\ email.subject = summary_subject

\* collect_unread_emails(frame, limit, ...) is called on any inbox, with
\* any limit, with and without a self_email.
InitHarvest ==
    /\ disk = EmptyState
    /\ state = EmptyState
    /\ self_email \in {"", "me@x.com"}
    /\ \E n \in 1..MaxItems :
         args = [wait |-> FALSE, dry_run |-> FALSE, apply_only |-> FALSE,
                 limit |-> n]
    /\ pc = "collect"
    /\ batch_id = 0
    /\ prov = [j \in JobIds |-> NoBatch]
    /\ pending = None
    /\ sbatch = None
    /\ summary_text = None
    /\ payload = <<>>
    /\ waited = 0
    /\ emails = <<>>
    /\ decisions = EmptyDict
    /\ idx = 1
    /\ results = <<>>
    /\ seen_threads = {}
    /\ calls = <<>>
    /\ raised = {}
    /\ status = "none"
    /\ path = "none"
    /\ ctx = "none"
    /\ sendCount = [c \in CustomIds |-> 0]
    /\ summarySent = [j \in JobIds |-> 0]
    /\ unread \in SeqsUpTo(RowPool, MaxItems)
    /\ harvested = [j \in JobIds |-> <<>>]
    /\ applied = {}
    /\ run = NewRun

\* for _ in range(limit): one iteration that opens the first unread row
\* The open mail does not show in time (PlaywrightTimeoutError; the row
\* is read by then, or still unread), or it is read, extracted and kept
\* unless it is the summary, a mail of self_email, or of a thread already
\* seen.  The clock advances with every iteration (back_to_inbox sleeps).
CollectRow ==
    /\ pc = "collect"
    /\ idx <= args.limit
    /\ unread # <<>>
    /\ idx' = idx + 1
    /\ \/ /\ unread' \in {unread, Tail(unread)}
          /\ UNCHANGED <<emails, seen_threads>>
       \/ /\ unread' = Tail(unread)
          /\ LET email == extract_open_email(Head(unread), idx) IN
             IF \/ IsSummaryMail(email)
                \/ IsOwnMail(email, self_email)
                \/ IsThreadDup(email, seen_threads)
             THEN UNCHANGED <<emails, seen_threads>>
             ELSE /\ seen_threads' = IF email.thread_id # ""
                                     THEN seen_threads \cup {email.thread_id}
                                     ELSE seen_threads
                  /\ emails' = Append(emails, email)
    /\ UNCHANGED <<disk, state, args, self_email, pc, prov, pending, batch_id,
                   sbatch, summary_text, payload, waited, decisions, results,
                   calls, raised, status, path, ctx, history>>

\* The loop ends: `limit` iterations are done, or click_first_unread found
\* no unread row twice (break); return emails.
CollectReturn ==
    /\ pc = "collect"
    /\ idx > args.limit \/ unread = <<>>
    /\ pc' = "collected"
    /\ UNCHANGED <<disk, state, args, self_email, unread, prov, locals, history>>

NextHarvest ==
    \/ CollectRow
    \/ CollectReturn

SpecHarvest == InitHarvest /\ [][NextHarvest]_vars

\* ------------------------------------------------------------ claims
\* state.json records a classification job the provider has not finished.
PendingUnresolved ==
    /\ disk.pending_batch # None
    /\ prov[disk.pending_batch.batch_id].status \in NonTerminal

\* This step registers a new classification job with the provider.
SubmitsClassification ==
    \E j \in DOMAIN prov : prov[j].kind = "none" /\ prov'[j].kind = "classification"

\* This step is a call of collect_unread_emails.
Harvests == pc = "harvest" /\ pc' \in {"submit", "ret"}

\* C1: while state.json holds a pending_batch whose provider status is not
\* terminal, no invocation harvests and none submits a new classification
\* job.
C1_NoSubmitWhilePending ==
    [][PendingUnresolved => ~(SubmitsClassification \/ Harvests)]_vars

\* C2: without --wait, an invocation whose poll of the recorded
\* classification job returned a non-terminal status (and whose poll of a
\* recorded summary job, if any, did too) leaves state.json unchanged; one
\* that polled only a summary job, with a non-terminal status, leaves
\* pending_summary_batch unchanged.
C2_NonBlockingPollKeepsStore ==
    [][/\ (/\ pc # "idle"
           /\ ~args.wait
           /\ run.firstPoll \in NonTerminal
           /\ run.sumLast \in NonTerminal \cup {"none"})
          => disk' = disk
       /\ (/\ pc # "idle"
           /\ ~args.wait
           /\ run.firstPoll = "none"
           /\ run.sumLast \in NonTerminal)
          => disk'.pending_summary_batch = disk.pending_summary_batch]_vars

\* C3: over any sequence of invocations, crashed and resumed ones included,
\* the reply to an item is really sent at most once.
C3_ReplySentAtMostOnce == \A c \in CustomIds : sendCount[c] <= 1

\* C4: once the first poll of a recorded pending_batch has returned failed,
\* cancelled or expired, state.json no longer records that job and the job
\* is never applied.
C4_TerminalFailureClears ==
    run.firstPoll \in TerminalFailed =>
        /\ disk.pending_batch = None \/ disk.pending_batch.batch_id # run.polled
        /\ run.polled \notin applied

\* C5: no wait loop over a classification job goes on after a poll that
\* returned failed, cancelled or expired, and a --wait invocation that got
\* such a poll ends with the job's record removed and the job not applied.
C5_WaitLoopStopsOnFailure ==
    /\ (pc = "w_poll" /\ waited > 0) => status \notin TerminalFailed
    /\ (pc = "rw_poll" /\ waited > 0 /\ run.firstPoll \in NonTerminal)
         => status \notin TerminalFailed
    /\ (/\ pc = "ret"
        /\ args.wait
        /\ run.firstPoll \in NonTerminal
        /\ status \in TerminalFailed)
         => /\ disk.pending_batch = None \/ disk.pending_batch.batch_id # batch_id
            /\ batch_id \notin applied

\* C6: no write of state.json leaves a pending_batch that names a job whose
\* decisions apply_actions has already applied.
C6_NoWriteKeepsAppliedJob ==
    [][disk' # disk =>
         (disk'.pending_batch = None
            \/ disk'.pending_batch.batch_id \notin applied)]_vars

\* C7: an adapter call that raises inside apply_actions is caught: the item
\* gets an Outcome with status "failed" and the loop goes on to the
\* remaining items.
C7_AdapterFailureContained ==
    /\ pc # "apply_raised"
    /\ \A c \in raised :
         \E k \in 1..Len(results) :
           results[k].custom_id = c /\ results[k].status = "failed"

\* This step removes the pending_batch record from state.json after the
\* poll of its job returned completed.
ClearsCompleted ==
    /\ disk.pending_batch # None
    /\ disk'.pending_batch = None
    /\ status' = "completed"

\* C8 as stated: a completed job's record is removed only after
\* apply_actions has run on the job's items.
C8_CompletedClearedOnlyApplied ==
    [][ClearsCompleted => disk.pending_batch.batch_id \in applied]_vars

\* C8 amended: a completed job that has an output file is cleared only
\* after its output was fetched and parsed and apply_actions has run on its
\* items (a completed job without output file is cleared unapplied).
C8_CompletedWithOutputClearedOnlyApplied ==
    [][(ClearsCompleted /\ prov[disk.pending_batch.batch_id].output_file_id)
         => disk.pending_batch.batch_id \in applied]_vars

C8_Witness ==
    /\ pc \in {"gate", "ret"}
    /\ status = "completed"
    /\ batch_id \in applied
    /\ prov[batch_id].output_file_id
    /\ disk.pending_batch = None

\* apply_actions runs on the items as harvested and on the decisions parsed
\* from the job's output, whichever copy of the code called it.
SameInputs ==
    pc \in {"apply", "after_apply"} =>
        /\ emails = harvested[batch_id]
        /\ decisions = parse_batch_output(prov[batch_id].output)

\* What the wait-mode run does with the summary job it submitted: it polls
\* it, and keeps the record exactly when the last poll was not terminal.
SummaryHandledAsInWaitRun ==
    /\ run.sumLast # "none"
    /\ disk.pending_summary_batch # None <=> run.sumLast \in NonTerminal

\* C9 as stated: a resumed invocation applies the same items and decisions
\* as the uninterrupted wait-mode run and makes the same transition of
\* state.json, whatever its flags.
C9_ResumeSameAsWaitRun ==
    /\ SameInputs
    /\ (pc = "clear" /\ self_email # "") => SummaryHandledAsInWaitRun

\* C9 amended: a resumed invocation applies the same items and decisions as
\* the uninterrupted wait-mode run and removes pending_batch like it; it
\* treats the summary job like the wait-mode run only when it runs with
\* --wait itself (without --wait it leaves the new record unpolled).
C9_ResumeSameOutcomes ==
    /\ SameInputs
    /\ (pc = "clear" /\ self_email # "" /\ (path = "fresh" \/ args.wait))
         => SummaryHandledAsInWaitRun
    /\ (pc = "gate" /\ path = "resume") => disk.pending_batch = None

C9_Witness ==
    /\ pc = "gate"
    /\ path = "resume"
    /\ args.wait
    /\ batch_id \in applied
    /\ run.sumLast = "completed"
    /\ disk = EmptyState

\* Item k of the list is not skipped: no earlier item has its thread_id.
FirstOfThread(k) ==
    \A m \in 1..(k - 1) :
        emails[k].thread_id = "" \/ emails[m].thread_id # emails[k].thread_id

\* C10: an item without entry in `decisions` gets the Outcome important /
\* "missing decision" (never ignore), and no adapter call is made for it.
C10_MissingDecisionIsImportant ==
    /\ \A k \in 1..Len(results) :
         results[k].custom_id \notin DOMAIN decisions =>
             /\ results[k].action = "important"
             /\ results[k].status = "missing decision"
    /\ \A k \in 1..Len(emails) :
         (k < idx /\ FirstOfThread(k) /\ emails[k].custom_id \notin DOMAIN decisions)
           => \E r \in 1..Len(results) : results[r].custom_id = emails[k].custom_id
    /\ \A k \in 1..Len(calls) : calls[k].custom_id \in DOMAIN decisions

C10_Witness ==
    /\ pc = "after_apply"
    /\ \E k \in 1..Len(results) :
         /\ results[k].custom_id \notin DOMAIN decisions
         /\ results[k].status = "missing decision"
    /\ calls # <<>>

\* The items the loop has gone through that are the first of their thread
\* (or have no thread_id).
KeptIdx == {k \in 1..(idx - 1) : k <= Len(emails) /\ FirstOfThread(k)}

\* The open_thread_fn calls made for items of thread t.
OpenCallsOfThread(t) ==
    {k \in 1..Len(calls) :
        /\ calls[k].fn = "open_thread_fn"
        /\ \E e \in ApplyPool :
             e.custom_id = calls[k].custom_id /\ e.thread_id = t}

\* C11: as long as no adapter call raised, the Outcomes are those of the
\* items that are first of their non-empty thread_id or have an empty
\* thread_id, one each; a later item of a thread yields no Outcome and no
\* adapter call; an item with empty thread_id is never skipped.
C11_ThreadDedup ==
    raised = {} =>
        /\ Len(results) = Cardinality(KeptIdx)
        /\ \A k \in KeptIdx :
             \E r \in 1..Len(results) : results[r].custom_id = emails[k].custom_id
        /\ \A k \in 1..Len(emails) :
             (k < idx /\ emails[k].thread_id = "") => k \in KeptIdx
        /\ \A t \in {"t1", "t2"} : Cardinality(OpenCallsOfThread(t)) <= 1

C11_Witness ==
    /\ pc = "after_apply"
    /\ Len(emails) = 2
    /\ emails[1].custom_id # emails[2].custom_id
    /\ emails[1].thread_id = emails[2].thread_id
    /\ emails[1].thread_id # ""
    /\ NeedsAdapter(decisions, emails[1])
    /\ NeedsAdapter(decisions, emails[2])
    /\ Len(results) = 1
    /\ Len(calls) = 3

\* The Decision for custom_id c is auto_reply with an empty reply.
EmptyReply(c) ==
    /\ c \in DOMAIN decisions
    /\ decisions[c].action = "auto_reply"
    /\ decisions[c].reply = ""

\* C12: an item decided auto_reply with an empty reply gets the Outcome
\* important / "missing reply text" with an empty reply, and open_thread_fn,
\* reply_fn and back_fn are not called for it: nothing is sent.
C12_EmptyReplyNeverSent ==
    /\ \A r \in 1..Len(results) :
         EmptyReply(results[r].custom_id) =>
             /\ results[r].action = "important"
             /\ results[r].status = "missing reply text"
             /\ results[r].reply = ""
    /\ \A k \in KeptIdx :
         EmptyReply(emails[k].custom_id) =>
             \E r \in 1..Len(results) : results[r].custom_id = emails[k].custom_id
    /\ \A k \in 1..Len(calls) : ~EmptyReply(calls[k].custom_id)
    /\ \A c \in CustomIds : EmptyReply(c) => sendCount[c] = 0

C12_Witness ==
    /\ pc = "after_apply"
    /\ \E r \in 1..Len(results) :
         /\ EmptyReply(results[r].custom_id)
         /\ results[r].status = "missing reply text"

\* The output text the parser is given, and its lines that decide the entry
\* of their custom_id: records with a custom_id that no later record has.
Text == download_file(1)

LastFor(k) ==
    /\ IsObjectLine(Text[k])
    /\ Text[k].custom_id # ""
    /\ \A m \in (k + 1)..Len(Text) :
         ~(IsObjectLine(Text[m]) /\ Text[m].custom_id = Text[k].custom_id)

ParseDone == pc \in {"parsed", "parse_raised"}

\* C13: whatever lines the output has, malformed ones included, the parser
\* does not abort, and every line that is well-formed and has a custom_id
\* yields a Decision for its custom_id.
C13_MalformedLineContained ==
    ParseDone =>
        /\ pc = "parsed"
        /\ \A k \in 1..Len(Text) :
             (IsObjectLine(Text[k]) /\ Text[k].custom_id # "" /\ ~LineRaises(Text[k]))
               => Text[k].custom_id \in DOMAIN decisions

\* The action the model wrote is missing or, lower-cased, not one of the
\* three.
UnknownAction(content) ==
    /\ content.kind = "object"
    /\ ("action" \notin DOMAIN content.data
          \/ Lower(content.data.action) \notin {"ignore", "auto_reply", "important"})

\* C14: every Decision the parser returns has action ignore, auto_reply or
\* important, and a line whose action is missing or unknown gives important.
C14_ActionCoerced ==
    pc = "parsed" =>
        /\ \A c \in DOMAIN decisions :
             decisions[c].action \in {"ignore", "auto_reply", "important"}
        /\ \A k \in 1..Len(Text) :
             (LastFor(k) /\ Text[k].error = "absent" /\ UnknownAction(Text[k].content))
               => decisions[Text[k].custom_id].action = "important"

C14_Witness ==
    /\ pc = "parsed"
    /\ \E k \in 1..Len(Text) :
         /\ LastFor(k)
         /\ Text[k].error = "absent"
         /\ Text[k].content.kind = "object"
         /\ "action" \in DOMAIN Text[k].content.data
         /\ Text[k].content.data.action = "delete"
         /\ decisions[Text[k].custom_id].action = "important"

\* The model content is not JSON text: a string json.loads rejects, nothing
\* to extract, or null.
NotValidJson(content) == content.kind \in {"notjson", "missing", "null"}

\* C15: a line with a custom_id whose model content is not valid JSON (or
\* cannot be extracted) gives its custom_id the Decision important /
\* "invalid_json" with empty reply, the other lines being harmless.
C15_InvalidJsonFailSafe ==
    ParseDone =>
        \A k \in 1..Len(Text) :
            (/\ LastFor(k)
             /\ Text[k].error = "absent"
             /\ NotValidJson(Text[k].content)
             /\ \A m \in 1..Len(Text) : m # k => ~LineRaises(Text[m]))
              => /\ pc = "parsed"
                 /\ Text[k].custom_id \in DOMAIN decisions
                 /\ decisions[Text[k].custom_id].action = "important"
                 /\ decisions[Text[k].custom_id].reason = "invalid_json"
                 /\ decisions[Text[k].custom_id].reply = ""

\* C16: in the dict the parser returns, a custom_id whose (last) line has a
\* provider error maps to important / "batch_error" with the error text as
\* summary and an empty reply.
C16_ErrorLineFailSafe ==
    pc = "parsed" =>
        \A k \in 1..Len(Text) :
            (LastFor(k) /\ Text[k].error # "absent")
              => decisions[Text[k].custom_id] =
                   Decision("important", "batch_error", Text[k].error, "")

C16_Witness ==
    /\ pc = "parsed"
    /\ Len(Text) = 2
    /\ LastFor(1)
    /\ Text[1].error = "rate limit"
    /\ LastFor(2)
    /\ decisions[Text[1].custom_id].reason = "batch_error"
    /\ decisions[Text[2].custom_id].reason # "batch_error"

\* The text is the serialization of a mapping from item ids to Decisions:
\* one line per id, its content the JSON text of the Decision.
IsSerialized ==
    \A k \in 1..Len(Text) :
        /\ LastFor(k)
        /\ Text[k].error = "absent"
        /\ \E d \in DecisionOptions : Text[k].content = Serialize(d)

\* C17: parsing the serialization of a mapping of item ids to Decisions
\* gives back that mapping: the same ids, and for each the same action,
\* reason, summary and reply.
C17_RoundTrip ==
    (ParseDone /\ IsSerialized) =>
        /\ pc = "parsed"
        /\ DOMAIN decisions = {Text[k].custom_id : k \in 1..Len(Text)}
        /\ \A k \in 1..Len(Text) :
             decisions[Text[k].custom_id] = Text[k].content.data

C17_Witness ==
    /\ pc = "parsed"
    /\ IsSerialized
    /\ Len(Text) = 2
    /\ decisions[Text[1].custom_id].action = "auto_reply"
    /\ decisions[Text[1].custom_id].reply = "Thank you."
    /\ decisions[Text[2].custom_id].action = "ignore"

\* A blocking wait loop is running: after a fresh submit, on a resumed
\* pending_batch, or on a summary job.
InWaitLoop == pc \in {"w_poll", "rw_poll", "sw_poll"}

\* The records as the submit wrote them.
AsSubmitted(id) ==
    [batch_id |-> id, created_at |-> id,
     items |-> [k \in 1..Len(harvested[id]) |-> ToDict(harvested[id][k])]]

SummaryAsSubmitted(id) ==
    [batch_id |-> id, custom_id |-> SummaryCustomId(id), created_at |-> id]

\* state.json holds the PendingJob the loop waits for, as submitted.
LoopRecordIntact ==
    IF pc = "sw_poll"
    THEN disk.pending_summary_batch = SummaryAsSubmitted(sbatch.batch_id)
    ELSE disk.pending_batch = AsSubmitted(batch_id)

\* This step registers a job with the provider.
SubmitsJob == \E j \in DOMAIN prov : prov[j].kind = "none" /\ prov'[j].kind # "none"

\* C18: a window of N hours is N*3600 seconds and one of N minutes N*60; a
\* wait loop sleeps 30 s per poll and never more than the window, so it
\* makes at most N*60/30 polls; no step of the loop submits a job, a poll
\* with a non-terminal status leaves state.json alone, and when the window
\* is used up the loop returns without raising and without writing, the
\* PendingJob being in state.json as the submit wrote it.
C18_WaitLoopBounded ==
    [][InWaitLoop =>
         /\ \A n \in 0..MaxWindow :
              /\ completion_window_to_seconds(Window(n, "h")) = n * 3600
              /\ completion_window_to_seconds(Window(n, "m")) = n * 60
         /\ waited % 30 = 0
         /\ waited \div 30 <= (MaxWindow * 60) \div 30
         /\ ~SubmitsJob
         /\ pc' = pc => disk' = disk
         /\ (waited \div 30 = (MaxWindow * 60) \div 30 /\ pc' # "idle")
              => /\ pc' \notin {pc, "raise"}
                 /\ disk' = disk
                 /\ LoopRecordIntact]_vars

C18_Witness ==
    /\ pc = "ret"
    /\ args.wait
    /\ waited = MaxWindow * 60
    /\ status \in NonTerminal
    /\ batch_id # 0
    /\ disk.pending_batch = AsSubmitted(batch_id)
    /\ harvested[batch_id] # <<>>

\* The provider call that is about to be made is a poll or a fetch for a
\* PendingJob that state.json records.
PollOrFetchNext ==
    /\ ProviderCallNext
    /\ pc \notin {"submit", "after_apply"}
    /\ IF pc \in {"hs_poll", "sw_poll", "hs_send"}
       THEN disk.pending_summary_batch # None
       ELSE disk.pending_batch # None

\* C19 as stated: when a poll or a fetch for a recorded PendingJob fails,
\* the invocation ends and state.json is what it was when the invocation
\* started.
C19_ProviderErrorRestoresStart ==
    [][(PollOrFetchNext /\ pc' = "error") => disk' = run.start]_vars

\* C19 amended: when a poll or a fetch for a recorded PendingJob fails,
\* state.json stays what it was just before the call (the PendingJob is
\* neither removed nor modified), and the invocation ends there: it makes
\* no other provider call and writes nothing more.
C19_ProviderErrorKeepsStore ==
    [][/\ (PollOrFetchNext /\ pc' = "error") => (disk' = disk /\ prov' = prov)
       /\ pc = "error" => (pc' = "idle" /\ disk' = disk /\ prov' = prov)]_vars

C19_Witness ==
    /\ pc = "error"
    /\ disk.pending_batch # None
    /\ prov[disk.pending_batch.batch_id].status = "completed"
    /\ disk.pending_batch.batch_id \notin applied

\* This step registers a summary job with the provider.
SubmitsSummary ==
    \E j \in DOMAIN prov : prov[j].kind = "none" /\ prov'[j].kind = "summary"

\* C20: a summary job is submitted only when apply_actions has gone through
\* every item of the classification job and returned their Outcomes, and
\* only with a self_email; with an empty self_email there is never a
\* summary job at the provider nor a pending_summary_batch in state.json.
C20_SummaryAfterOutcomes ==
    [][/\ SubmitsSummary =>
            /\ pc = "after_apply"
            /\ self_email # ""
            /\ batch_id \in applied
            /\ idx = Len(emails) + 1
            /\ Len(results) = Cardinality(KeptIdx)
       /\ self_email = "" =>
            /\ disk'.pending_summary_batch = None
            /\ \A j \in DOMAIN prov : prov'[j].kind # "summary"]_vars

C20_Witness ==
    /\ self_email # ""
    /\ disk.pending_summary_batch # None
    /\ prov[disk.pending_summary_batch.batch_id].kind = "summary"
    /\ disk.pending_batch # None
    /\ disk.pending_batch.batch_id \in applied

\* C21: at most one summary job is pending.  While state.json holds a
\* pending_summary_batch whose job has not reached a terminal status, no step
\* submits a summary job and no step replaces the record by another one.
SummaryUnresolved ==
    /\ disk.pending_summary_batch # None
    /\ prov[disk.pending_summary_batch.batch_id].status \in NonTerminal

C21_OneSummaryPending ==
    [][SummaryUnresolved =>
         /\ ~SubmitsSummary
         /\ disk'.pending_summary_batch \in {None, disk.pending_summary_batch}]_vars

\* C22: a recorded job of either kind whose provider status is terminal is
\* removed from state.json in the end, when main() is invoked again and
\* again, every provider call succeeds and, from some invocation on, no
\* parser and no adapter call raises.
Recorded(j) ==
    \/ disk.pending_batch # None /\ disk.pending_batch.batch_id = j
    \/ disk.pending_summary_batch # None /\ disk.pending_summary_batch.batch_id = j

C22_TerminalJobRemoved ==
    <>[](pc \notin {"raise", "apply_raised"}) =>
        \A j \in JobIds :
            (Recorded(j) /\ prov[j].status \in Terminal) ~> ~Recorded(j)

\* C23: parse_summary_batch_output returns the text body (white space at
\* its ends stripped) of the first line whose custom_id is the one asked
\* for; it raises "not found" when no line has it and the provider's error
\* when that line carries one; a line without a text body raises "invalid".
\* Lines with another custom_id change nothing.  Stated for a text in which
\* no line before the matching one is rejected by json.loads.
SummaryLines == download_file(1)

Matches(k) ==
    /\ IsObjectLine(SummaryLines[k])
    /\ SummaryLines[k].custom_id = SummaryCustomId(1)

FirstMatch ==
    IF \E k \in 1..Len(SummaryLines) : Matches(k)
    THEN CHOOSE k \in 1..Len(SummaryLines) :
            Matches(k) /\ \A i \in 1..(k - 1) : ~Matches(i)
    ELSE 0

NoMalformedBefore ==
    \A k \in 1..Len(SummaryLines) :
        (FirstMatch = 0 \/ k < FirstMatch) => SummaryLines[k] # MalformedLine

\* r is chars without the white space at its two ends.
IsStripOf(r, chars) ==
    \E a, b \in 0..Len(chars) :
        /\ a + Len(r) + b = Len(chars)
        /\ r = SubSeq(chars, a + 1, a + Len(r))
        /\ \A k \in 1..a : IsSpace(chars[k])
        /\ \A k \in (Len(chars) - b + 1)..Len(chars) : IsSpace(chars[k])
        /\ r # <<>> => ~IsSpace(r[1]) /\ ~IsSpace(r[Len(r)])

SummaryParseDone == pc \in {"summary_parsed", "summary_raised"}

SummaryResultAsClaimed ==
    IF FirstMatch = 0
    THEN pc = "summary_raised" /\ raised = {"Summary batch output not found."}
    ELSE LET m == SummaryLines[FirstMatch] IN
         IF m.error \notin {"absent", NullError, ""}
         THEN pc = "summary_raised" /\ raised = {m.error}
         ELSE IF m.content.kind = "text"
         THEN /\ pc = "summary_parsed"
              /\ summary_text.kind = "text"
              /\ IsStripOf(summary_text.chars, m.content.chars)
         ELSE pc = "summary_raised" /\ raised = {"Invalid summary batch output."}

C24_ApplyOnlyNeverHarvests ==
    [][args.apply_only => ~Harvests /\ ~SubmitsClassification]_vars

\* An --apply-only invocation has applied a recorded job and returned with
\* mail still unread and a batch id still to be had.
C24_Witness ==
    /\ args.apply_only
    /\ pc = "ret"
    /\ path = "resume"
    /\ unread # <<>>
    /\ FreeIds # {}

\* C25: the items stored in pending_batch.items are the harvested items of
\* the recorded job, in harvest order, every field unchanged, and the list
\* rebuilt from them on resume is the harvested list.
C25_StoredAsHarvested ==
    /\ disk.pending_batch # None =>
          disk.pending_batch.items = harvested[disk.pending_batch.batch_id]
    /\ (pc = "apply" /\ path = "resume") => emails = harvested[batch_id]

\* C25: between the submit of a job and the clearing of pending_batch no
\* step changes the stored items: as long as state.json holds a
\* pending_batch, its items are the ones written at that submit.
C25_StoredItemsUnmodified ==
    [][(disk.pending_batch # None /\ disk'.pending_batch # None) =>
          disk'.pending_batch.items = disk.pending_batch.items]_vars

\* The Decision for custom_id c is auto_reply with a reply text.
WantsReply(c) ==
    /\ c \in DOMAIN decisions
    /\ decisions[c].action = "auto_reply"
    /\ decisions[c].reply # ""

\* The custom_ids of the first n items without the thread-duplicates.
RECURSIVE KeptUpTo(_)
KeptUpTo(n) ==
    IF n = 0 THEN <<>>
    ELSE IF FirstOfThread(n) THEN Append(KeptUpTo(n - 1), emails[n].custom_id)
    ELSE KeptUpTo(n - 1)

\* The adapter calls the first n items ask for: for every item that is not
\* a thread-duplicate and is decided auto_reply with a reply text,
\* open_thread_fn, reply_fn, back_fn.
RECURSIVE ExpectedCallsUpTo(_)
ExpectedCallsUpTo(n) ==
    IF n = 0 THEN <<>>
    ELSE IF FirstOfThread(n) /\ WantsReply(emails[n].custom_id)
    THEN ExpectedCallsUpTo(n - 1) \o
           <<[fn |-> "open_thread_fn", custom_id |-> emails[n].custom_id],
             [fn |-> "reply_fn", custom_id |-> emails[n].custom_id],
             [fn |-> "back_fn", custom_id |-> emails[n].custom_id]>>
    ELSE ExpectedCallsUpTo(n - 1)

IsPrefix(a, b) == Len(a) <= Len(b) /\ a = SubSeq(b, 1, Len(a))

CallIds == [k \in 1..Len(calls) |-> calls[k].custom_id]
CallShapes ==
    [k \in 1..Len(calls) |-> [fn |-> calls[k].fn, custom_id |-> calls[k].custom_id]]
ExpectedCallIds ==
    LET e == ExpectedCallsUpTo(Len(emails)) IN [k \in 1..Len(e) |-> e[k].custom_id]

\* C26: the custom_ids of the Outcomes apply_actions returns are those of
\* the input items, in input order, without the thread-duplicates; and the
\* adapter calls come item after item in input order: all calls for an item
\* are made before any call for a later item.
C26_OutcomesInHarvestOrder ==
    /\ pc = "after_apply" =>
          [r \in 1..Len(results) |-> results[r].custom_id] = KeptUpTo(Len(emails))
    /\ IsPrefix(CallIds, ExpectedCallIds)
    /\ pc = "after_apply" => CallIds = ExpectedCallIds

\* Three items, the second a thread-duplicate of the first, all decided
\* auto_reply: two Outcomes and two triples of calls, in input order.
C26_Witness ==
    /\ pc = "after_apply"
    /\ Len(emails) = 3
    /\ emails[1].thread_id # ""
    /\ emails[2].thread_id = emails[1].thread_id
    /\ \A k \in 1..3 : WantsReply(emails[k].custom_id)
    /\ Len(results) = 2
    /\ results[1].custom_id = emails[1].custom_id
    /\ results[2].custom_id = emails[3].custom_id
    /\ Len(calls) = 6
    /\ calls[3].custom_id = emails[1].custom_id
    /\ calls[4].custom_id = emails[3].custom_id

\* C27: adapter calls are made only for items decided auto_reply with a
\* non-empty reply; for each such item the calls are one open_thread_fn,
\* then one reply_fn, then one back_fn (an exception ends the call of
\* apply_actions in the middle of such a triple); items decided important
\* or ignore cause no call.
C27_AdapterProtocol ==
    /\ \A k \in 1..Len(calls) : WantsReply(calls[k].custom_id)
    /\ IsPrefix(CallShapes, ExpectedCallsUpTo(Len(emails)))
    /\ pc = "after_apply" => CallShapes = ExpectedCallsUpTo(Len(emails))
    /\ \A k \in 1..Len(calls) : calls[k].ret = "raised" => k = Len(calls)

C27_Witness ==
    /\ pc = "after_apply"
    /\ Len(results) = 2
    /\ results[1].action \in {"important", "ignore"}
    /\ results[2].action = "auto_reply"
    /\ Len(calls) = 3
    /\ calls[1].fn = "open_thread_fn"
    /\ calls[2].fn = "reply_fn"
    /\ calls[3].fn = "back_fn"

\* The reply_fn calls that returned, and the Outcomes with action auto_reply.
ReplyCalls == SelectSeq(calls, LAMBDA c : c.fn = "reply_fn" /\ c.ret # "raised")
AutoOutcomes == SelectSeq(results, LAMBDA o : o.action = "auto_reply")

\* C28: every Outcome of an item that has a Decision follows the reference
\* mapping: ignore -> (ignore, ignored); important -> (important, needs
\* reply); auto_reply with a reply text -> (auto_reply, sent when reply_fn
\* returned true, failed otherwise); and as long as nothing raised every
\* item gone through that is not a thread-duplicate has its Outcome.
C28_ReferenceMapping ==
    /\ \A r \in 1..Len(results) :
         LET o == results[r] IN
         o.custom_id \in DOMAIN decisions =>
            LET d == decisions[o.custom_id] IN
            /\ d.action = "ignore" => o.action = "ignore" /\ o.status = "ignored"
            /\ d.action = "important" =>
                  o.action = "important" /\ o.status = "needs reply"
            /\ (d.action = "auto_reply" /\ d.reply # "") =>
                  o.action = "auto_reply" /\ o.status \in {"sent", "failed"}
    /\ Len(AutoOutcomes) = Len(ReplyCalls)
    /\ \A r \in 1..Len(AutoOutcomes) :
         /\ AutoOutcomes[r].custom_id = ReplyCalls[r].custom_id
         /\ AutoOutcomes[r].status = "sent" <=> ReplyCalls[r].ret = "True"
         /\ AutoOutcomes[r].status = "failed" <=> ReplyCalls[r].ret = "False"
    /\ raised = {} => Len(results) = Cardinality(KeptIdx)

C28_Witness ==
    /\ pc = "after_apply"
    /\ \E r \in 1..Len(results) :
         results[r].action = "auto_reply" /\ results[r].status = "failed"
    /\ \E r \in 1..Len(results) :
         results[r].action = "ignore" /\ results[r].status = "ignored"

\* The upload or the create_batch of a submit is refused: the invocation
\* ends in the traceback.
SubmitFails == pc \in {"submit", "after_apply"} /\ pc' = "error"

\* C29: a PendingJob is written only after its submit succeeded.  A step
\* that puts a new or changed pending_batch (pending_summary_batch) into
\* state.json is the step in which the provider registered that very job;
\* a submit the provider refuses ends the invocation and leaves state.json
\* as it was.
C29_RecordOnlyAfterSubmit ==
    [][/\ SubmitFails => disk' = disk
       /\ (disk'.pending_batch # None /\ disk'.pending_batch # disk.pending_batch) =>
             /\ prov[disk'.pending_batch.batch_id].kind = "none"
             /\ prov'[disk'.pending_batch.batch_id].kind = "classification"
       /\ (disk'.pending_summary_batch # None
             /\ disk'.pending_summary_batch # disk.pending_summary_batch) =>
             /\ prov[disk'.pending_summary_batch.batch_id].kind = "none"
             /\ prov'[disk'.pending_summary_batch.batch_id].kind = "summary"]_vars

\* The submit of the first harvest was refused: mail was taken from the
\* inbox, the provider has no job and state.json none either.
C29_Witness ==
    /\ pc = "error"
    /\ unread # Mailbox
    /\ \A j \in DOMAIN prov : prov[j].kind = "none"
    /\ disk = EmptyState

\* C30: with --dry-run nothing is really sent: no step of a dry-run
\* invocation clicks Send, neither for a reply nor for the summary, whatever
\* the items, the decisions and the job statuses.
C30_DryRunNeverSends ==
    [][args.dry_run => sendCount' = sendCount /\ summarySent' = summarySent]_vars

\* A dry-run invocation has applied a job decided auto_reply and has gone
\* through send_summary_email for the completed summary job.
C30_Witness ==
    /\ args.dry_run
    /\ pc = "hs_pop"
    /\ path = "fresh"
    /\ batch_id \in applied
    /\ prov[batch_id].output[1].content = AutoReplyJson
    /\ summary_text # None
    /\ \A c \in CustomIds : sendCount[c] = 0
    /\ \A j \in DOMAIN prov : summarySent[j] = 0

\* The trace of a full run on classification job b and summary job s.
FullRunTrace(b, s) ==
    <<<<"submit", b>>, <<"apply", b>>, <<"submit_summary", s>>,
      <<"send_summary", s>>, <<"pop_summary", s>>, <<"clear", b>>>>

IsSuffix(a, b) == Len(a) <= Len(b) /\ a = SubSeq(b, Len(b) - Len(a) + 1, Len(b))

\* A --wait invocation that harvested and submitted has seen its
\* classification job completed and its summary job completed, and has come
\* to its end: main() returns, or an exception leaves it.
FullWaitRunEnded ==
    /\ pc \in {"ret", "raise"}
    /\ args.wait
    /\ path = "fresh"
    /\ status = "completed"
    /\ run.sumLast = "completed"

EndsIdleInOrder ==
    /\ disk = EmptyState
    /\ \E s \in DOMAIN prov : IsSuffix(FullRunTrace(batch_id, s), run.trace)

RemovesSummary ==
    /\ disk.pending_summary_batch # None
    /\ disk'.pending_summary_batch = None

\* The summary job state.json records.
RecordedSummary == disk.pending_summary_batch.batch_id

\* The step is the removal that follows the fetch of the text and the
\* attempt to send it.
RemovalAfterSend ==
    /\ pc = "hs_pop"
    /\ summary_text # None
    /\ run.trace # <<>>
    /\ run.trace[Len(run.trace)] = <<"send_summary", RecordedSummary>>

\* The step is a removal right at the poll, the running invocation having
\* made no attempt to send the summary of the job.
RemovalWithoutSend ==
    /\ pc \in {"hs_poll", "sw_poll"}
    /\ summarySent' = summarySent
    /\ \A k \in 1..Len(run'.trace) :
          run'.trace[k] # <<"send_summary", RecordedSummary>>

\* A poll of the summary handler answered with a non-terminal status, the
\* handler not being asked to wait.
SinglePollNotTerminal ==
    /\ pc = "hs_poll"
    /\ ~HandleWait(ctx)
    /\ run'.sumLast \in NonTerminal
    /\ pc' # "error"

\* C32 as stated: in the single poll and in the wait loop alike, a summary
\* job polled completed has its text fetched and a send attempted before
\* pending_summary_batch is removed; polled failed, cancelled or expired it
\* is removed without any send; polled non-terminal without --wait the
\* record is left unchanged.
C32_SummaryPollOutcomes ==
    [][/\ (RemovesSummary /\ run'.sumLast = "completed") => RemovalAfterSend
       /\ (RemovesSummary /\ run'.sumLast \in TerminalFailed) => RemovalWithoutSend
       /\ SinglePollNotTerminal => disk' = disk]_vars

\* C32 amended: the send is attempted before the removal when the completed
\* summary job has an output file; a completed job without output file is
\* removed like a failed one, without fetch and without send.
C32_SummaryPollOutcomesWithOutput ==
    [][/\ (/\ RemovesSummary
           /\ run'.sumLast = "completed"
           /\ prov'[RecordedSummary].output_file_id) => RemovalAfterSend
       /\ (/\ RemovesSummary
           /\ \/ run'.sumLast \in TerminalFailed
              \/ run'.sumLast = "completed" /\ ~prov'[RecordedSummary].output_file_id)
             => RemovalWithoutSend
       /\ RemovesSummary => run'.sumLast \in Terminal
       /\ SinglePollNotTerminal => disk' = disk]_vars

\* A resumed summary job was polled in the wait loop, found completed, its
\* summary really sent and its record removed.
C32_Witness ==
    /\ pc = "pb"
    /\ ctx = "top"
    /\ waited > 0
    /\ disk.pending_summary_batch = None
    /\ Len(run.trace) = 2
    /\ run.trace[1][1] = "send_summary"
    /\ run.trace[2][1] = "pop_summary"
    /\ summarySent[run.trace[1][2]] = 1

\* The positions of the input list the dedup rule skips, and those it keeps.
SkippedPos == {k \in 1..Len(emails) : ~FirstOfThread(k)}
KeptPos == {k \in 1..Len(emails) : FirstOfThread(k)}

\* The Outcomes with custom_id c, and the kept positions that hold it.
OutcomesOf(c) == {r \in 1..Len(results) : results[r].custom_id = c}
KeptPosOf(c) == {k \in KeptPos : emails[k].custom_id = c}

\* C33: the list apply_actions returns has one Outcome for every item that
\* is not a thread-duplicate of an earlier item and none for the others: its
\* length is the number of items minus the number the dedup rule skips,
\* whatever the decisions dict holds (entries missing, empty replies, any
\* action); while the loop runs there is never more than one Outcome per
\* item gone through.
C33_OneOutcomePerKeptItem ==
    /\ Len(results) <= Len(emails)
    /\ raised = {} => Len(results) <= idx - 1
    /\ pc = "after_apply" =>
          /\ Len(results) = Len(emails) - Cardinality(SkippedPos)
          /\ \A c \in Ids(emails) :
                Cardinality(OutcomesOf(c)) = Cardinality(KeptPosOf(c))

\* Three items, the second a thread-duplicate of the first, and a decisions
\* dict without any entry: two Outcomes.
C33_Witness ==
    /\ pc = "after_apply"
    /\ Len(emails) = 3
    /\ SkippedPos = {2}
    /\ decisions = EmptyDict
    /\ Len(results) = 2
    /\ results[2].custom_id = emails[3].custom_id

\* Item k of the list has an Outcome: some Outcome carries its custom_id.
HasOutcome(k) == OutcomesOf(emails[k].custom_id) # {}

\* C34: build_summary_payload returns one entry per item, in the order of
\* the items, thread-duplicates without Outcome included; the final_action
\* of an item that has an Outcome is the action of that Outcome (important
\* for an auto_reply that was downgraded); an item with neither Outcome nor
\* Decision has final_action important.
C34_PayloadPerItem ==
    pc = "payload_built" =>
        /\ Len(payload) = Len(emails)
        /\ \A k \in 1..Len(emails) :
             /\ payload[k].sender = emails[k].sender
             /\ payload[k].subject = emails[k].subject
             /\ \A r \in OutcomesOf(emails[k].custom_id) :
                   payload[k].final_action = results[r].action
             /\ (HasOutcome(k) /\ EmptyReply(emails[k].custom_id))
                   => payload[k].final_action = "important"
             /\ (~HasOutcome(k) /\ ~HasDecision(decisions, emails[k]))
                   => payload[k].final_action = "important"

\* Three items: the first decided auto_reply without reply text, the second
\* a thread-duplicate of it with another custom_id and no Decision.
C34_Witness ==
    /\ pc = "payload_built"
    /\ Len(emails) = 3
    /\ SkippedPos = {2}
    /\ emails[2].custom_id # emails[1].custom_id
    /\ EmptyReply(emails[1].custom_id)
    /\ ~HasDecision(decisions, emails[2])
    /\ payload[1].final_action = "important"
    /\ payload[2].result = EmptyDict
    /\ payload[2].final_action = "important"
    /\ payload[3].result # EmptyDict

\* The places of transition ev on job b in the trace of the running
\* invocation.
TraceAt(ev, b) == {k \in 1..Len(run.trace) : run.trace[k] = <<ev, b>>}

\* The wait loop over the resumed pending_batch of job b has seen it
\* completed and has called main() again.
Reentered(b) == TraceAt("reenter", b) # {}

\* The invocation has removed pending_batch of job b after that.
ClearedAfterReentry(b) ==
    \E i \in TraceAt("reenter", b), j \in TraceAt("clear", b) : i < j

\* apply_actions has run once on job b, between the re-entry and the
\* removal of its record.
AppliedOnceBetween(b) ==
    /\ Cardinality(TraceAt("apply", b)) = 1
    /\ \A a \in TraceAt("apply", b) :
         /\ \E i \in TraceAt("reenter", b) : i < a
         /\ \A j \in TraceAt("clear", b) : a < j

\* The invocation was ended by an exception of a parser or of an adapter call.
EndedByException == pc \in {"raise", "apply_raised"}

C36_OtherKindUntouched ==
    [][/\ disk'.pending_summary_batch # disk.pending_summary_batch
            => disk'.pending_batch = disk.pending_batch
       /\ disk'.pending_batch # disk.pending_batch
            => disk'.pending_summary_batch = disk.pending_summary_batch
       /\ disk' # disk => disk' = state']_vars

\* pending_summary_batch has just been removed while state.json holds the
\* pending_batch of the applied job, as it was submitted.
C36_Witness ==
    /\ pc = "clear"
    /\ run.trace[Len(run.trace)][1] = "pop_summary"
    /\ disk.pending_summary_batch = None
    /\ disk.pending_batch = AsSubmitted(batch_id)
    /\ Len(disk.pending_batch.items) = 2

\* The line has an "error" key that holds null or the empty string, and a
\* response whose content is the JSON text of a Decision.
VoidErrorLine(obj) ==
    /\ IsObjectLine(obj)
    /\ obj.error \in {NullError, ""}
    /\ \E d \in DecisionOptions : obj.content = Serialize(d)

\* C37: parse_batch_output takes a line for a provider error only when its
\* error is non-empty, as parse_summary_batch_output does: a line whose
\* error is present but null or empty, with a valid response, gives its
\* custom_id the Decision parsed from the response content.
C37_VoidErrorIsSuccess ==
    pc = "parsed" =>
        \A k \in 1..Len(Text) :
            (LastFor(k) /\ VoidErrorLine(Text[k]))
              => decisions[Text[k].custom_id] = parse_decision(Text[k].content)

\* The summary parser's half: the line asked for, its error null or empty
\* and its content a text, gives the text and raises nothing.
SummaryVoidErrorIsSuccess ==
    (/\ SummaryParseDone
     /\ FirstMatch # 0
     /\ NoMalformedBefore
     /\ SummaryLines[FirstMatch].error \in {NullError, ""}
     /\ SummaryLines[FirstMatch].content.kind = "text")
      => (pc = "summary_parsed"
            /\ summary_text = strip(SummaryLines[FirstMatch].content))

\* C38: over any sequence of invocations, with crashes at any step, the
\* summary email of a summary job is really sent at most once.
C38_SummarySentAtMostOnce == \A j \in DOMAIN summarySent : summarySent[j] <= 1

\* An --apply-only invocation that started with a pending_batch in
\* state.json returns, the provider having the job completed with its
\* output file.
ApplyOnlyReturnsOnCompleted ==
    /\ pc = "ret"
    /\ args.apply_only
    /\ run.start.pending_batch # None
    /\ prov[run.start.pending_batch.batch_id].status = "completed"
    /\ prov[run.start.pending_batch.batch_id].output_file_id

\* The invocation has applied the job it started with and removed its record.
StartJobAppliedAndCleared ==
    /\ TraceAt("apply", run.start.pending_batch.batch_id) # {}
    /\ disk.pending_batch = None

\* C39: an --apply-only invocation that finds a pending_batch whose job is
\* completed applies its decisions and removes pending_batch before it
\* returns, whether or not state.json also records a pending_summary_batch.
C39_ApplyOnlyAppliesCompleted ==
    ApplyOnlyReturnsOnCompleted => StartJobAppliedAndCleared

\* The same for an invocation that started without pending_summary_batch:
\* there the job is applied and its record removed.
ApplyOnlyAppliesWithoutSummary ==
    (ApplyOnlyReturnsOnCompleted /\ run.start.pending_summary_batch = None)
      => StartJobAppliedAndCleared

\* C40: the list collect_unread_emails returns has at most `limit` items,
\* no two of them with the same non-empty thread_id, their custom_ids
\* pairwise distinct, and none of them the system's own summary: none has
\* the summary subject and, when a self_email is configured, none has a
\* sender that contains it.
C40_HarvestContract ==
    /\ Len(emails) <= args.limit
    /\ \A i, j \in 1..Len(emails) :
         i # j =>
            /\ emails[i].custom_id # emails[j].custom_id
            /\ emails[i].thread_id = "" \/ emails[i].thread_id # emails[j].thread_id
    /\ \A k \in 1..Len(emails) :
         /\ emails[k].subject # summary_subject
         /\ self_email # "" => emails[k].sender \notin {"me@x.com", "Me <ME@X.COM>"}

\* Three rows were opened: a mail that is kept, the note to self that is
\* filtered, a mail without thread id that is kept.
C40_Witness ==
    /\ pc = "collected"
    /\ self_email # ""
    /\ args.limit = 3
    /\ idx = 4
    /\ Len(emails) = 2
    /\ emails[1].thread_id = "t1"
    /\ emails[2].thread_id = ""
    /\ emails[2].custom_id.ms = 3

====
